---- MODULE Spec2Model ----
(***************************************************************************)
(* career-log-cli: the commit-to-achievement pipeline.                     *)
(*                                                                         *)
(* runCLI validates the options and starts generateCareerLog, which reads  *)
(* the commits, classifies each with analyzeDiff, optionally drops         *)
(* low-impact ones, synthesizes an achievement with generateAchievement    *)
(* (reference title, generative backend, local patterns) and writes the    *)
(* sorted entries.  Text is modelled by TLA+ strings, handled with Len,    *)
(* SubSeq and \o as the code handles JavaScript strings.                   *)
(***************************************************************************)
EXTENDS Integers, Sequences, FiniteSets, TLC

(***************************************************************************)
(* String helpers: what the JavaScript built-ins used by the code do.      *)
(***************************************************************************)
UpperChars == "ABCDEFGHIJKLMNOPQRSTUVWXYZ"

LowerChars == "abcdefghijklmnopqrstuvwxyz"

DigitChars == "0123456789"

CharAt(s, i) == SubSeq(s, i, i)

IsSpace(c) == c \in {" ", "\n", "\t"}

IsDigit(c) == c \in {"0", "1", "2", "3", "4", "5", "6", "7", "8", "9"}

LowerChar(c) ==
  IF \E k \in 1..26 : CharAt(UpperChars, k) = c
  THEN CharAt(LowerChars, CHOOSE k \in 1..26 : CharAt(UpperChars, k) = c)
  ELSE c

RECURSIVE toLowerCase(_)
toLowerCase(s) ==
  IF s = "" THEN ""
  ELSE LowerChar(CharAt(s, 1)) \o toLowerCase(SubSeq(s, 2, Len(s)))

\* text.substring(i - 1, i - 1 + Len(w)) = w
MatchAt(s, i, w) ==
  /\ i >= 1
  /\ i + Len(w) - 1 <= Len(s)
  /\ SubSeq(s, i, i + Len(w) - 1) = w

\* s.includes(w)
includes(s, w) == \E i \in 1..(Len(s) + 1) : MatchAt(s, i, w)

startsWith(s, w) == MatchAt(s, 1, w)

endsWith(s, w) == MatchAt(s, Len(s) - Len(w) + 1, w)

\* s.substring(0, n)
substring0(s, n) == IF Len(s) <= n THEN s ELSE SubSeq(s, 1, n)

\* first position >= i of s whose character is not white space
RECURSIVE SkipSpaces(_, _)
SkipSpaces(s, i) ==
  IF i <= Len(s) /\ IsSpace(CharAt(s, i)) THEN SkipSpaces(s, i + 1) ELSE i

\* last position <= i of s whose character is not white space, 0 if none
RECURSIVE LastNonSpace(_, _)
LastNonSpace(s, i) ==
  IF i >= 1 /\ IsSpace(CharAt(s, i)) THEN LastNonSpace(s, i - 1) ELSE i

\* s.trim()
trim(s) == SubSeq(s, SkipSpaces(s, 1), LastNonSpace(s, Len(s)))

\* String(n) for a natural number
RECURSIVE NatToStr(_)
NatToStr(n) ==
  IF n < 10 THEN CharAt(DigitChars, n + 1)
  ELSE NatToStr(n \div 10) \o CharAt(DigitChars, (n % 10) + 1)

DigitVal(c) == (CHOOSE k \in 1..10 : CharAt(DigitChars, k) = c) - 1

\* parseInt(d, 10) for a string of digits
RECURSIVE parseInt(_)
parseInt(d) ==
  IF d = "" THEN 0
  ELSE parseInt(SubSeq(d, 1, Len(d) - 1)) * 10 + DigitVal(CharAt(d, Len(d)))

\* first position >= i of s whose character is not a digit
RECURSIVE SkipDigits(_, _)
SkipDigits(s, i) ==
  IF i <= Len(s) /\ IsDigit(CharAt(s, i)) THEN SkipDigits(s, i + 1) ELSE i

\* the capture of (\d+) at position i: the longest run of digits, "" if none
DigitsAt(s, i) == SubSeq(s, i, SkipDigits(s, i) - 1)

NoMatch == "<none>"

(***************************************************************************)
(* pr-parser.ts                                                            *)
(***************************************************************************)
\* (?:#|PR\s*#?)(\d+) anchored at position i of the lower-cased text
RefAt(low, i) ==
  IF MatchAt(low, i, "#") /\ DigitsAt(low, i + 1) # ""
  THEN DigitsAt(low, i + 1)
  ELSE IF MatchAt(low, i, "pr")
       THEN LET j == SkipSpaces(low, i + 2)
                k == IF MatchAt(low, j, "#") THEN j + 1 ELSE j
            IN IF DigitsAt(low, k) # "" THEN DigitsAt(low, k) ELSE NoMatch
       ELSE NoMatch

\* fixes? is "fixe" with an optional "s", and so on
CloseKeywords == <<"fixes", "fixe", "closes", "close", "resolves", "resolve", "merges", "merge">>

\* (?:fixes?|closes?|resolves?|merges?)\s+(?:#|PR\s*#?)(\d+) anchored at i
CloseRefAt(low, i) ==
  LET ok == {n \in 1..Len(CloseKeywords) :
               /\ MatchAt(low, i, CloseKeywords[n])
               /\ SkipSpaces(low, i + Len(CloseKeywords[n])) > i + Len(CloseKeywords[n])
               /\ RefAt(low, SkipSpaces(low, i + Len(CloseKeywords[n]))) # NoMatch}
  IN IF ok = {} THEN NoMatch
     ELSE LET n == CHOOSE m \in ok : TRUE
          IN RefAt(low, SkipSpaces(low, i + Len(CloseKeywords[n])))

\* first position >= i of s whose character is neither ':' nor white space
RECURSIVE SkipColonSpaces(_, _)
SkipColonSpaces(s, i) ==
  IF i <= Len(s) /\ (IsSpace(CharAt(s, i)) \/ CharAt(s, i) = ":")
  THEN SkipColonSpaces(s, i + 1) ELSE i

\* PR[:\s]+(\d+) anchored at i
PrColonAt(low, i) ==
  IF MatchAt(low, i, "pr") /\ SkipColonSpaces(low, i + 2) > i + 2
       /\ DigitsAt(low, SkipColonSpaces(low, i + 2)) # ""
  THEN DigitsAt(low, SkipColonSpaces(low, i + 2))
  ELSE NoMatch

\* pull[-\s]?request[:\s]+#?(\d+) anchored at i
PullRequestAt(low, i) ==
  IF ~MatchAt(low, i, "pull") THEN NoMatch
  ELSE LET j == IF MatchAt(low, i + 4, "request") THEN i + 4
                ELSE IF i + 4 <= Len(low)
                        /\ (CharAt(low, i + 4) = "-" \/ IsSpace(CharAt(low, i + 4)))
                        /\ MatchAt(low, i + 5, "request") THEN i + 5
                ELSE 0
       IN IF j = 0 THEN NoMatch
          ELSE LET k == SkipColonSpaces(low, j + 7)
                   d == IF MatchAt(low, k, "#") THEN k + 1 ELSE k
               IN IF k > j + 7 /\ DigitsAt(low, d) # "" THEN DigitsAt(low, d)
                  ELSE NoMatch

PatternAt_BareFirst(p, low, i) ==
  CASE p = 1 -> RefAt(low, i)
    [] p = 2 -> CloseRefAt(low, i)
    [] p = 3 -> PrColonAt(low, i)
    [] OTHER -> PullRequestAt(low, i)

\* combined.match(PR_PATTERNS[p]): the capture of the leftmost match
PatternAt(p, low, i) ==
  CASE p = 1 -> CloseRefAt(low, i)
    [] p = 2 -> RefAt(low, i)
    [] p = 3 -> PrColonAt(low, i)
    [] OTHER -> PullRequestAt(low, i)

PR_PATTERNS == 1..4

FirstMatch(p, low) ==
  LET hits == {i \in 1..Len(low) : PatternAt(p, low, i) # NoMatch}
  IN IF hits = {} THEN NoMatch
     ELSE PatternAt(p, low, CHOOSE i \in hits : \A j \in hits : i <= j)

\* the value extractPRNumber returns when no pattern matches
null == -1

\* the patterns that match somewhere in the text
SomePattern(low) == {p \in PR_PATTERNS : FirstMatch(p, low) # NoMatch}

extractPRNumber(commitMessage, commitBody) ==
  LET low == toLowerCase(commitMessage \o " " \o commitBody)
      ps == SomePattern(low)
  IN IF ps = {} THEN null
     ELSE parseInt(FirstMatch(CHOOSE p \in ps : \A q \in ps : p <= q, low))

genericWhole == {"update", "fix", "change", "changes", "wip", "work in progress",
                 "merge", "update ...", "bump"}

genericPrefix_BranchOnly == {"merge branch"}

genericPrefix == {"merge branch", "merge pull request"}

isCommitMessageHelpful(message) ==
  LET trimmed == trim(message)
      low == toLowerCase(trimmed)
  IN IF Len(trimmed) < 10 THEN FALSE
     ELSE IF low \in genericWhole \/ \E w \in genericPrefix : startsWith(low, w)
          THEN FALSE
          ELSE TRUE

(***************************************************************************)
(* diff-analyzer.ts                                                        *)
(***************************************************************************)
\* a regular expression of the tables: a literal that must occur somewhere
\* in the text ("in") or at its end ("end"), case-insensitively
In(w) == [kind |-> "in", text |-> w]

AtEnd(w) == [kind |-> "end", text |-> w]

\* pattern.test(s) for the /i patterns of the tables
test(pattern, s) ==
  IF pattern.kind = "end" THEN endsWith(toLowerCase(s), toLowerCase(pattern.text))
  ELSE includes(toLowerCase(s), toLowerCase(pattern.text))

CRITICAL_FILE_PATTERNS ==
  <<AtEnd("package.json"), AtEnd("package-lock.json"), AtEnd("yarn.lock"),
    In("dockerfile"), In("docker-compose"), In(".dockerignore"), In("migration"),
    In("schema"), In("auth"), In("security"), In("api"), In(".github/workflows"),
    In(".env"), In("config"), In(".config.")>>

CRITICAL_KEYWORDS ==
  <<"performance", "optimize", "cache", "security", "vulnerability", "auth",
    "encryption", "critical", "urgent", "hotfix", "breach", "exploit",
    "sql injection", "xss", "csrf">>

PERFORMANCE_KEYWORDS ==
  <<"performance", "optimize", "optimization", "cache", "caching", "speed",
    "latency", "throughput", "efficiency">>

isCritical_ManifestOnly(file) == test(CRITICAL_FILE_PATTERNS[1], file)

isCritical(file) ==
  \E k \in 1..Len(CRITICAL_FILE_PATTERNS) : test(CRITICAL_FILE_PATTERNS[k], file)

\* (text.match(/^c/gm) || []).length: the lines of text that start with c
countLines(text, c) ==
  Cardinality({i \in 1..Len(text) :
                 CharAt(text, i) = c /\ (i = 1 \/ CharAt(text, i - 1) = "\n")})

\* the first keyword of the table that the text includes, 0 if none
firstKeyword(table, text) ==
  LET hits == {k \in 1..Len(table) : includes(text, toLowerCase(table[k]))}
  IN IF hits = {} THEN 0 ELSE CHOOSE k \in hits : \A j \in hits : k <= j

\* the new-feature check without its bound on the removed lines
structuralSignals_FeatureAnyRemoved(addedLines, removedLines) ==
  (IF removedLines > 100 /\ addedLines > 100
     THEN <<"Large refactoring detected">> ELSE <<>>)
  \o (IF addedLines > 200
        THEN <<"New feature implementation">> ELSE <<>>)
  \o (IF removedLines > 50 /\ 2 * addedLines < removedLines
        THEN <<"Bug fix pattern detected">> ELSE <<>>)


\* the three independent checks on the added and removed line counts
structuralSignals(addedLines, removedLines) ==
  (IF removedLines > 100 /\ addedLines > 100
     THEN <<"Large refactoring detected">> ELSE <<>>)
  \o (IF addedLines > 200 /\ removedLines < 50
        THEN <<"New feature implementation">> ELSE <<>>)
  \o (IF removedLines > 50 /\ 2 * addedLines < removedLines
        THEN <<"Bug fix pattern detected">> ELSE <<>>)

\* the try block with a catch that reports the failure as a signal
diffSignals_ReportsFailure(diff) ==
  IF ~diff.ok THEN <<"Diff unavailable">>
  ELSE LET diffLower == toLowerCase(diff.text)
           ck == firstKeyword(CRITICAL_KEYWORDS, diffLower)
           pk == firstKeyword(PERFORMANCE_KEYWORDS, diffLower)
       IN (IF ck # 0 THEN <<"Critical keyword found: " \o CRITICAL_KEYWORDS[ck]>>
             ELSE <<>>)
          \o (IF pk # 0 THEN <<"Performance-related changes detected">> ELSE <<>>)
          \o structuralSignals(countLines(diff.text, "+"), countLines(diff.text, "-"))

\* the signals of the try block; nothing when git.diff throws
diffSignals(diff) ==
  IF ~diff.ok THEN <<>>
  ELSE LET diffLower == toLowerCase(diff.text)
           ck == firstKeyword(CRITICAL_KEYWORDS, diffLower)
           pk == firstKeyword(PERFORMANCE_KEYWORDS, diffLower)
       IN (IF ck # 0 THEN <<"Critical keyword found: " \o CRITICAL_KEYWORDS[ck]>>
             ELSE <<>>)
          \o (IF pk # 0 THEN <<"Performance-related changes detected">> ELSE <<>>)
          \o structuralSignals(countLines(diff.text, "+"), countLines(diff.text, "-"))

fileSignals(files) ==
  LET crit == SelectSeq(files, isCritical)
  IN [k \in 1..Len(crit) |-> "Critical file modified: " \o crit[k]]

someIncludes(signals, w) == \E k \in 1..Len(signals) : includes(signals[k], w)

\* "HIGH impact conditions"
highImpact_LargeFromThousand(totalLines, criticalFilesModified, signals) ==
  totalLines > 1000 \/ criticalFilesModified > 0 \/ someIncludes(signals, "Critical")

highImpact(totalLines, criticalFilesModified, signals) ==
  totalLines > 500 \/ criticalFilesModified > 0 \/ someIncludes(signals, "Critical")

\* the tier decision whose low branch reports the file count only
tier_LowFilesOnly(totalLines, filesModified, criticalFilesModified, signals) ==
  IF highImpact(totalLines, criticalFilesModified, signals)
  THEN [impactLevel |-> "high",
        pushed |-> IF totalLines > 500
                     THEN <<"Large change: " \o NatToStr(totalLines) \o " lines">>
                     ELSE <<>>]
  ELSE IF \/ (totalLines >= 100 /\ totalLines <= 500)
          \/ (filesModified >= 3 /\ filesModified <= 10)
          \/ someIncludes(signals, "Performance")
  THEN [impactLevel |-> "medium",
        pushed |-> (IF totalLines >= 100
                      THEN <<"Moderate change: " \o NatToStr(totalLines) \o " lines">>
                      ELSE <<>>)
                   \o (IF filesModified >= 3
                         THEN <<"Multiple files: " \o NatToStr(filesModified) \o " files">>
                         ELSE <<>>)]
  ELSE [impactLevel |-> "low",
        pushed |-> IF filesModified <= 2
                     THEN <<"Few files: " \o NatToStr(filesModified) \o " file(s)">>
                     ELSE <<>>]


\* the tier decision with the file range left open above
tier_NoFileCap(totalLines, filesModified, criticalFilesModified, signals) ==
  IF highImpact(totalLines, criticalFilesModified, signals)
  THEN [impactLevel |-> "high", pushed |-> <<>>]
  ELSE IF \/ (totalLines >= 100 /\ totalLines <= 500)
          \/ filesModified >= 3
          \/ someIncludes(signals, "Performance")
  THEN [impactLevel |-> "medium", pushed |-> <<>>]
  ELSE [impactLevel |-> "low", pushed |-> <<>>]

\* the impact level and the signals pushed by the tier decision
tier(totalLines, filesModified, criticalFilesModified, signals) ==
  IF highImpact(totalLines, criticalFilesModified, signals)
  THEN [impactLevel |-> "high",
        pushed |-> IF totalLines > 500
                     THEN <<"Large change: " \o NatToStr(totalLines) \o " lines">>
                     ELSE <<>>]
  ELSE IF \/ (totalLines >= 100 /\ totalLines <= 500)
          \/ (filesModified >= 3 /\ filesModified <= 10)
          \/ someIncludes(signals, "Performance")
  THEN [impactLevel |-> "medium",
        pushed |-> (IF totalLines >= 100
                      THEN <<"Moderate change: " \o NatToStr(totalLines) \o " lines">>
                      ELSE <<>>)
                   \o (IF filesModified >= 3
                         THEN <<"Multiple files: " \o NatToStr(filesModified) \o " files">>
                         ELSE <<>>)]
  ELSE [impactLevel |-> "low",
        pushed |-> (IF totalLines < 100
                      THEN <<"Small change: " \o NatToStr(totalLines) \o " lines">>
                      ELSE <<>>)
                   \o (IF filesModified <= 2
                         THEN <<"Few files: " \o NatToStr(filesModified) \o " file(s)">>
                         ELSE <<>>)]

\* analyzeDiff(commit, repoPath), diff being what git.diff yields for the commit
analyzeDiff(commit, diff) ==
  LET totalLines == commit.insertions + commit.deletions
      filesModified == Len(commit.files)
      criticalFilesModified == Len(SelectSeq(commit.files, isCritical))
      signals == fileSignals(commit.files) \o diffSignals(diff)
      t == tier(totalLines, filesModified, criticalFilesModified, signals)
      all == signals \o t.pushed
  IN [impactLevel |-> t.impactLevel,
      signals |-> IF Len(all) > 0 THEN all ELSE <<"Standard commit">>,
      changeMetrics |-> [totalLines |-> totalLines,
                         filesModified |-> filesModified,
                         criticalFilesModified |-> criticalFilesModified]]

(***************************************************************************)
(* achievement-generator.ts: local pattern synthesis                       *)
(***************************************************************************)
COMPONENT_PATTERNS ==
  <<[name |-> "auth",
     patterns |-> <<In("auth"), In("authentication"), In("login"), In("session"),
                    In("jwt"), In("oauth"), In("token")>>],
    [name |-> "API",
     patterns |-> <<In("api"), In("endpoint"), In("route"), In("controller"),
                    In("handler")>>],
    [name |-> "database",
     patterns |-> <<In("database"), In("db"), In("sql"), In("query"),
                    In("migration"), In("schema"), In("model")>>],
    [name |-> "UI",
     patterns |-> <<In("ui"), In("component"), In("view"), In("page"), In("screen"),
                    AtEnd(".tsx"), AtEnd(".jsx"), AtEnd(".vue")>>],
    [name |-> "frontend",
     patterns |-> <<In("frontend"), In("client"), AtEnd(".html"), AtEnd(".css"),
                    AtEnd(".scss")>>],
    [name |-> "backend",
     patterns |-> <<In("backend"), In("server"), In("service"), AtEnd(".py"),
                    AtEnd(".java")>>],
    [name |-> "testing",
     patterns |-> <<In("test"), In("spec"), In(".test."), In(".spec."),
                    In("__tests__")>>],
    [name |-> "security",
     patterns |-> <<In("security"), In("encryption"), In("vulnerability"),
                    In("sanitize"), In("validate")>>],
    [name |-> "performance",
     patterns |-> <<In("performance"), In("optimize"), In("cache"), In("speed"),
                    In("latency")>>],
    [name |-> "config",
     patterns |-> <<In("config"), In(".env"), AtEnd(".yaml"), AtEnd(".yml"),
                    AtEnd(".json")>>],
    [name |-> "infrastructure",
     patterns |-> <<In("docker"), In("kubernetes"), In("deploy"), In("ci/cd"),
                    In(".github/workflows")>>]>>

ACTION_KEYWORDS ==
  <<[action |-> "optimize", gerund |-> "optimizing",
     keywords |-> <<"optimize", "optimization", "performance", "cache", "speed",
                    "latency", "efficiency">>],
    [action |-> "implement", gerund |-> "implementing",
     keywords |-> <<"implement", "add", "create", "build", "introduce", "feature">>],
    [action |-> "fix", gerund |-> "fixing",
     keywords |-> <<"fix", "resolve", "solve", "bug", "error", "issue", "patch">>],
    [action |-> "enhance", gerund |-> "enhancing",
     keywords |-> <<"enhance", "improve", "upgrade", "refine", "polish">>],
    [action |-> "refactor", gerund |-> "refactoring",
     keywords |-> <<"refactor", "restructure", "reorganize", "cleanup">>],
    [action |-> "test", gerund |-> "testing",
     keywords |-> <<"test", "testing", "coverage", "spec", "assert">>],
    [action |-> "secure", gerund |-> "securing",
     keywords |-> <<"secure", "security", "encrypt", "sanitize", "validate", "auth">>]>>

ACHIEVEMENT_PATTERNS ==
  <<[type |-> "performance",
     keywords |-> <<"performance", "optimize", "cache", "speed", "latency">>],
    [type |-> "security",
     keywords |-> <<"security", "encrypt", "vulnerability", "auth", "sanitize">>],
    [type |-> "feature",
     keywords |-> <<"implement", "add", "create", "feature", "introduce">>],
    [type |-> "bugfix",
     keywords |-> <<"fix", "resolve", "bug", "error", "issue">>],
    [type |-> "testing",
     keywords |-> <<"test", "testing", "coverage", "spec">>]>>

\* files.join(' ')
RECURSIVE join(_)
join(files) ==
  IF Len(files) = 0 THEN ""
  ELSE IF Len(files) = 1 THEN files[1]
  ELSE files[1] \o " " \o join(Tail(files))

\* the number of non-overlapping occurrences of w in s from position i on
RECURSIVE countFrom(_, _, _)
countFrom(s, w, i) ==
  IF i + Len(w) - 1 > Len(s) THEN 0
  ELSE IF MatchAt(s, i, w) THEN 1 + countFrom(s, w, i + Len(w))
  ELSE countFrom(s, w, i + 1)

\* (combined.match(new RegExp(pattern.source, 'gi')) || []).length
countMatches(pattern, combined) ==
  IF pattern.kind = "end"
  THEN (IF endsWith(combined, pattern.text) THEN 1 ELSE 0)
  ELSE countFrom(combined, pattern.text, 1)

RECURSIVE patternsScore(_, _, _)
patternsScore(patterns, files, combined) ==
  IF Len(patterns) = 0 THEN 0
  ELSE 2 * Len(SelectSeq(files, LAMBDA f : test(patterns[1], f)))
       + countMatches(patterns[1], combined)
       + patternsScore(Tail(patterns), files, combined)

capitalize(w) ==
  (IF \E k \in 1..26 : CharAt(LowerChars, k) = CharAt(w, 1)
     THEN CharAt(UpperChars, CHOOSE k \in 1..26 : CharAt(LowerChars, k) = CharAt(w, 1))
     ELSE CharAt(w, 1))
  \o SubSeq(w, 2, Len(w))

someEndsWith(files, exts) ==
  \E k \in 1..Len(files) : \E e \in exts : endsWith(toLowerCase(files[k]), e)

someIncludesExt(files, exts) ==
  \E k \in 1..Len(files) : \E e \in exts : includes(toLowerCase(files[k]), e)

extractComponent(files, diffContent) ==
  LET combined == toLowerCase(join(files) \o " " \o diffContent)
      score == [k \in 1..Len(COMPONENT_PATTERNS) |->
                  patternsScore(COMPONENT_PATTERNS[k].patterns, files, combined)]
      scored == {k \in 1..Len(COMPONENT_PATTERNS) : score[k] > 0}
  IN IF scored # {}
     THEN \* the sort is stable: the first of the highest scores
          capitalize(COMPONENT_PATTERNS[
            CHOOSE k \in scored :
              \A j \in scored : score[k] > score[j] \/ (score[k] = score[j] /\ k <= j)].name)
     ELSE IF someEndsWith(files, {".tsx", ".jsx", ".vue"}) THEN "UI"
     ELSE IF someEndsWith(files, {".py", ".java", ".go", ".rs"}) THEN "Backend"
     ELSE IF someIncludesExt(files, {".sql", ".migration"}) THEN "Database"
     ELSE "System"

someKeyword(keywords, text) == \E k \in 1..Len(keywords) : includes(text, keywords[k])

extractAction(commitMessage, diffContent) ==
  LET combined == toLowerCase(commitMessage \o " " \o diffContent)
      hits == {k \in 1..Len(ACTION_KEYWORDS) :
                 someKeyword(ACTION_KEYWORDS[k].keywords, combined)}
      addedLines == countLines(diffContent, "+")
      removedLines == countLines(diffContent, "-")
  IN IF hits # {}
     THEN ACTION_KEYWORDS[CHOOSE k \in hits : \A j \in hits : k <= j].gerund
     ELSE IF addedLines > removedLines * 2 THEN "implementing"
     ELSE IF removedLines > addedLines * 2 THEN "fixing"
     ELSE "improving"

\* pattern.template(...) as called by the switch of generateAchievement
template(type, component, action, filesModified) ==
  CASE type = "performance" -> "Optimized " \o component \o " by " \o action
    [] type = "security" -> "Enhanced security in " \o component
    [] type = "feature" -> "Implemented " \o component \o " feature affecting "
                           \o NatToStr(filesModified) \o " modules"
    [] type = "bugfix" -> "Fixed " \o component \o " bug"
    [] OTHER -> "Improved code reliability with " \o action

\* the unmatched branch without its last else: no text for a low commit
patternSynthesis_NoLowText(commit, diffContent, diffAnalysis) ==
  LET combinedText == toLowerCase(commit.message \o " " \o commit.body \o " " \o diffContent)
      component == extractComponent(commit.files, diffContent)
      action == extractAction(commit.message, diffContent)
      hits == {k \in 1..Len(ACHIEVEMENT_PATTERNS) :
                 someKeyword(ACHIEVEMENT_PATTERNS[k].keywords, combinedText)}
      filesCount == diffAnalysis.changeMetrics.filesModified
  IN IF hits # {}
     THEN [text |-> template(ACHIEVEMENT_PATTERNS[CHOOSE k \in hits : \A j \in hits : k <= j].type,
                             component, action, filesCount),
           confidence |-> 75, matched |-> TRUE]
     ELSE [text |-> IF diffAnalysis.impactLevel = "high"
                    THEN IF filesCount > 10
                         THEN "Delivered major " \o toLowerCase(component)
                              \o " feature affecting " \o NatToStr(filesCount) \o " modules"
                         ELSE "Completed high-impact " \o toLowerCase(component) \o " work"
                    ELSE IF diffAnalysis.impactLevel = "medium"
                    THEN "Delivered " \o toLowerCase(component) \o " feature"
                    ELSE "",
           confidence |-> 60, matched |-> FALSE]


\* the loop over the templates without its break: the last hit wins
patternSynthesis_LastHit(commit, diffContent, diffAnalysis) ==
  LET combinedText == toLowerCase(commit.message \o " " \o commit.body \o " " \o diffContent)
      component == extractComponent(commit.files, diffContent)
      action == extractAction(commit.message, diffContent)
      hits == {k \in 1..Len(ACHIEVEMENT_PATTERNS) :
                 someKeyword(ACHIEVEMENT_PATTERNS[k].keywords, combinedText)}
      filesCount == diffAnalysis.changeMetrics.filesModified
  IN IF hits # {}
     THEN [text |-> template(ACHIEVEMENT_PATTERNS[CHOOSE k \in hits : \A j \in hits : k >= j].type,
                             component, action, filesCount),
           confidence |-> 75, matched |-> TRUE]
     ELSE [text |-> IF diffAnalysis.impactLevel = "high"
                    THEN IF filesCount > 10
                         THEN "Delivered major " \o toLowerCase(component)
                              \o " feature affecting " \o NatToStr(filesCount) \o " modules"
                         ELSE "Completed high-impact " \o toLowerCase(component) \o " work"
                    ELSE IF diffAnalysis.impactLevel = "medium"
                    THEN "Delivered " \o toLowerCase(component) \o " feature"
                    ELSE "Made " \o toLowerCase(component) \o " improvements",
           confidence |-> 60, matched |-> FALSE]


\* the block "if (!achievementText)" of generateAchievement: text and confidence
patternSynthesis(commit, diffContent, diffAnalysis) ==
  LET combinedText == toLowerCase(commit.message \o " " \o commit.body \o " " \o diffContent)
      component == extractComponent(commit.files, diffContent)
      action == extractAction(commit.message, diffContent)
      hits == {k \in 1..Len(ACHIEVEMENT_PATTERNS) :
                 someKeyword(ACHIEVEMENT_PATTERNS[k].keywords, combinedText)}
      filesCount == diffAnalysis.changeMetrics.filesModified
  IN IF hits # {}
     THEN [text |-> template(ACHIEVEMENT_PATTERNS[CHOOSE k \in hits : \A j \in hits : k <= j].type,
                             component, action, filesCount),
           confidence |-> 75, matched |-> TRUE]
     ELSE [text |-> IF diffAnalysis.impactLevel = "high"
                    THEN IF filesCount > 10
                         THEN "Delivered major " \o toLowerCase(component)
                              \o " feature affecting " \o NatToStr(filesCount) \o " modules"
                         ELSE "Completed high-impact " \o toLowerCase(component) \o " work"
                    ELSE IF diffAnalysis.impactLevel = "medium"
                    THEN "Delivered " \o toLowerCase(component) \o " feature"
                    ELSE "Made " \o toLowerCase(component) \o " improvements",
           confidence |-> 60, matched |-> FALSE]

(***************************************************************************)
(* Bounds and the inputs the environment supplies                          *)
(***************************************************************************)
MaxCommits == 2

MaxCalls == 2

MaxAchievementLen == 150

MaxSubjectLen == 60

RECURSIVE repeat(_, _)
repeat(c, n) == IF n = 0 THEN "" ELSE c \o repeat(c, n - 1)

\* what git log yields for the commits of the repository, with the diff
\* git.diff yields for each (ok = FALSE: the command fails)
GitCommits ==
  <<[hash |-> 1, date |-> 3, message |-> "fix #12", body |-> "",
     files |-> <<"src/auth/login.ts">>, insertions |-> 5, deletions |-> 2,
     diff |-> [ok |-> TRUE, text |-> "+ token check\n- old"]],
    [hash |-> 2, date |-> 1, message |-> "wip", body |-> "",
     files |-> <<"README.md">>, insertions |-> 3, deletions |-> 1,
     diff |-> [ok |-> FALSE, text |-> ""]],
    [hash |-> 3, date |-> 2, message |-> "Add caching layer", body |-> "closes #7",
     files |-> <<"a.ts", "b.ts", "c.ts">>, insertions |-> 120, deletions |-> 30,
     diff |-> [ok |-> TRUE, text |-> "+ speed up\n"]],
    [hash |-> 4, date |-> 3, message |-> "update", body |-> "see PR 3",
     files |-> <<"x.py">>, insertions |-> 600, deletions |-> 0,
     diff |-> [ok |-> FALSE, text |-> ""]],
    [hash |-> 5, date |-> 2, message |-> "bump #4", body |-> "",
     files |-> <<"notes.md">>, insertions |-> 1, deletions |-> 1,
     diff |-> [ok |-> TRUE, text |-> "+ a\n- b"]]>>

Hashes == 1..Len(GitCommits)

\* a commit the direct caller builds itself: no message, no files
CallerCommit ==
  [hash |-> Len(GitCommits) + 1, date |-> 1, message |-> "", body |-> "",
   files |-> <<>>, insertions |-> 0, deletions |-> 0,
   diff |-> [ok |-> FALSE, text |-> ""]]

CommitData == Append(GitCommits, CallerCommit)

AllHashes == 1..Len(CommitData)

\* the sequences of distinct commits git log may yield
Histories ==
  UNION {{h \in [1..n -> Hashes] : \A a, b \in 1..n : a # b => h[a] # h[b]} :
           n \in 0..MaxCommits}

\* a prNumber the direct caller sets on the commit on its own
CallerPRNumber == 123

PRTitle == "Optimize database queries reducing response time by 40%"

\* data.title of a successful reference-platform response
ResponseTitles == {PRTitle, ""}

\* the content of a successful backend response
BackendTexts == {"Built OAuth login flow", "  ", repeat("x", MaxAchievementLen + 1)}

\* fetch throws (threw), answers with a status that is not ok, or succeeds
PRResponses ==
  {[threw |-> t, ok |-> FALSE, title |-> ""] : t \in BOOLEAN}
  \cup {[threw |-> FALSE, ok |-> TRUE, title |-> t] : t \in ResponseTitles}

BackendResponses ==
  {[threw |-> t, ok |-> FALSE, content |-> ""] : t \in BOOLEAN}
  \cup {[threw |-> FALSE, ok |-> TRUE, content |-> t] : t \in BackendTexts}

Platforms == {"github", "gitlab", "unknown"}

OptionNames ==
  {"enterprise", "apiKey", "useLocalLlm", "skipPr", "githubToken", "gitlabToken",
   "skipLowImpact"}

NoOptions == [n \in OptionNames |-> FALSE]

CallOptionNames ==
  {"enterprise", "apiKey", "useLocalLlm", "skipPR", "githubToken", "gitlabToken"}

NoCallOptions == [n \in CallOptionNames |-> FALSE]

NoAnalysis ==
  [impactLevel |-> "low", signals |-> <<>>,
   changeMetrics |-> [totalLines |-> 0, filesModified |-> 0, criticalFilesModified |-> 0]]

NoResult == [achievement |-> "", confidence |-> 0, aiGenerated |-> FALSE, dataLocal |-> TRUE]

NoProbe == [fn |-> "none"]

NoGen ==
  [shouldSkipForAI |-> FALSE, usePRInfo |-> FALSE, achievementText |-> "",
   confidence |-> 0, prNumber |-> 0, path |-> "none", getPRInfoCalled |-> FALSE,
   failed |-> {}]

(***************************************************************************)
(* State                                                                   *)
(***************************************************************************)
VARIABLES
  entry,        \* "cli": runCLI(args); "api": generateAchievement called directly
  options,      \* the options commander parsed (TRUE: the flag or value is given)
  platform,     \* what detectRepoInfo finds for the repository
  source,       \* the hashes git log yields, in its order
  commits,      \* the Commit records, as annotated
  idx,          \* the commit the loop of generateCareerLog is at
  pc,           \* the position of the run
  diffAnalysis, \* the DiffAnalysis of the current commit
  callOptions,  \* the options argument of the current generateAchievement call
  gen,          \* the locals of the current generateAchievement call
  result,       \* the AchievementResult of the last call
  entries,      \* the entries of generateCareerLog
  output,       \* the career log written, <<>> before
  exitCode,     \* -1 while running
  calls,        \* every external call issued so far, in order
  nCalls,       \* generateAchievement calls started
  started,      \* generateCareerLog was entered
  stderr,       \* the messages of console.error
  probe         \* the arguments and the value of a function applied on its own

vars ==
  <<entry, options, platform, source, commits, idx, pc, diffAnalysis, callOptions,
    gen, result, entries, output, exitCode, calls, nCalls, started, stderr, probe>>

\* parseGitCommits: the record of a commit, with the PR number of its message
parseCommit(h) ==
  LET c == CommitData[h]
  IN [hash |-> c.hash, date |-> c.date, message |-> c.message, body |-> c.body,
      files |-> c.files, insertions |-> c.insertions, deletions |-> c.deletions,
      \* if (prNumber) commit.prNumber = prNumber; 0: the field is not set
      prNumber |-> IF extractPRNumber(c.message, c.body) \in {null, 0} THEN 0
                   ELSE extractPRNumber(c.message, c.body),
      prTitle |-> "", prDescription |-> "", prUrl |-> ""]

gitDiff(h) == CommitData[h].diff

\* getDiffContent: '' when git.diff throws
getDiffContent(h) == IF gitDiff(h).ok THEN gitDiff(h).text ELSE ""

Levels == {"high", "medium", "low"}

\* The pure functions of the code, tabulated over the commits of the
\* repository: the actions look the values up instead of recomputing them.
RECURSIVE Tabulate(_, _)
Tabulate(F(_), S) ==
  LET x == CHOOSE y \in S : TRUE
  IN IF S = {x} THEN x :> F(x) ELSE (x :> F(x)) @@ Tabulate(F, S \ {x})

commitOf == Tabulate(parseCommit, AllHashes)

numberOf ==
  Tabulate(LAMBDA h : extractPRNumber(CommitData[h].message, CommitData[h].body), AllHashes)

helpfulOf == Tabulate(LAMBDA h : isCommitMessageHelpful(CommitData[h].message), AllHashes)

analysisOf == Tabulate(LAMBDA h : analyzeDiff(commitOf[h], gitDiff(h)), AllHashes)

synthesisOf ==
  Tabulate(LAMBDA h :
             Tabulate(LAMBDA l : patternSynthesis(commitOf[h], getDiffContent(h),
                                                  [analysisOf[h] EXCEPT !.impactLevel = l]),
                      Levels),
           AllHashes)

Call(kind) == [kind |-> kind, commit |-> commits[idx].hash, call |-> nCalls]

InitCLI ==
  /\ entry = "cli"
  /\ options \in [OptionNames -> BOOLEAN]
  /\ source \in Histories
  /\ commits = <<>>
  /\ idx = 0
  /\ pc = "runCLI"
  /\ diffAnalysis = NoAnalysis
  /\ callOptions = NoCallOptions
  /\ nCalls = 0

\* a test or a library user calls generateAchievement on a commit of its own
InitAPI ==
  /\ entry = "api"
  /\ options = NoOptions
  /\ source \in {<<h>> : h \in AllHashes}
  /\ \E c \in {commitOf[source[1]]}, t \in {"", PRTitle} :
       \E n \in {c.prNumber, CallerPRNumber} :
         commits = <<[c EXCEPT !.prTitle = t, !.prNumber = n]>>
  /\ idx = 1
  /\ pc = "generateAchievement"
  /\ \E l \in Levels :
       diffAnalysis = [analysisOf[source[1]] EXCEPT !.impactLevel = l]
  /\ callOptions \in [CallOptionNames -> BOOLEAN]
  /\ nCalls = 1

Init ==
  /\ InitCLI \/ InitAPI
  /\ platform \in Platforms
  /\ gen = NoGen
  /\ result = NoResult
  /\ entries = <<>>
  /\ output = <<>>
  /\ exitCode = -1
  /\ calls = <<>>
  /\ started = FALSE
  /\ stderr = <<>>
  /\ probe = NoProbe

(***************************************************************************)
(* cli.ts: runCLI                                                          *)
(***************************************************************************)
conflict_ApiKeyOnly(o) == o.enterprise /\ o.apiKey

\* "Enterprise mode validation": the options runCLI refuses
conflict(o) == o.enterprise /\ (o.apiKey \/ o.useLocalLlm)

enterpriseOptions_KeepsPR(o) == o

\* "Enterprise mode also skips PR parsing (no external APIs)"
enterpriseOptions(o) == IF o.enterprise THEN [o EXCEPT !.skipPr = TRUE] ELSE o

\* --enterprise with an AI option: console.error and process.exit(1)
RunCLIRejects ==
  /\ pc = "runCLI"
  /\ conflict(options)
  /\ stderr' = Append(stderr, "Error: --enterprise mode cannot be used with AI options")
  /\ pc' = "exited"
  /\ exitCode' = 1
  /\ UNCHANGED <<entry, options, platform, source, commits, idx, diffAnalysis,
                 callOptions, gen, result, entries, output, calls, nCalls, started,
                 probe>>

\* the options pass: enterprise sets skipPr, generateCareerLog is awaited
RunCLI ==
  /\ pc = "runCLI"
  /\ ~conflict(options)
  /\ options' = enterpriseOptions(options)
  /\ started' = TRUE
  /\ pc' = "parseGitCommits"
  /\ UNCHANGED <<entry, platform, source, commits, idx, diffAnalysis, callOptions,
                 gen, result, entries, output, exitCode, calls, nCalls,
                 stderr, probe>>

(***************************************************************************)
(* generator.ts: generateCareerLog                                         *)
(***************************************************************************)
\* the loop goes to the commit after idx, or leaves the loop
Advance == IF idx < Len(commits) THEN "analyzeImpact" ELSE "write"

noCommits_Never(cs) == FALSE

\* commits.length === 0
noCommits(cs) == Len(cs) = 0

\* Step 1: the commits are read; none is terminal, otherwise the loop is
\* entered at the first commit
ParseGitCommits ==
  /\ pc = "parseGitCommits"
  /\ commits' = [k \in 1..Len(source) |-> commitOf[source[k]]]
  /\ IF noCommits(source)
     THEN /\ pc' = "exited"
          /\ exitCode' = 1
          /\ stderr' = Append(stderr, "No commits found")
          /\ idx' = idx
     ELSE /\ pc' = IF Len(source) > 0 THEN "analyzeImpact" ELSE "write"
          /\ exitCode' = exitCode
          /\ stderr' = stderr
          /\ idx' = IF Len(source) > 0 THEN 1 ELSE idx
  /\ UNCHANGED <<entry, options, platform, source, diffAnalysis, callOptions, gen,
                 result, entries, output, calls, nCalls, started,
                 probe>>

\* parseGitCommits throws: the catch block reports and exits
ParseGitCommitsFails ==
  /\ pc = "parseGitCommits"
  /\ stderr' = Append(stderr, "Failed to generate career log")
  /\ pc' = "exited"
  /\ exitCode' = 1
  /\ UNCHANGED <<entry, options, platform, source, commits, idx, diffAnalysis,
                 callOptions, gen, result, entries, output, calls, nCalls, started,
                 probe>>

\* analyzeImpact(commit, repoPath) = analyzeDiff(commit, repoPath)
AnalyzeImpact ==
  /\ pc = "analyzeImpact"
  /\ calls' = Append(calls, Call("diff"))
  /\ diffAnalysis' = analysisOf[commits[idx].hash]
  /\ pc' = "sample"
  /\ UNCHANGED <<entry, options, platform, source, commits, idx, callOptions, gen,
                 result, entries, output, exitCode, nCalls, started,
                 stderr, probe>>

\* every commit may be dropped once skipLowImpact is set
mayDrop_AnyTier(o, d) == o.skipLowImpact

\* skipLowImpact && diffAnalysis.impactLevel === 'low'
mayDrop(o, d) == o.skipLowImpact /\ d.impactLevel = "low"

\* skipLowImpact, a low commit and Math.random() < 0.5: continue
DropLowImpact ==
  /\ pc = "sample"
  /\ mayDrop(options, diffAnalysis)
  /\ pc' = Advance
  /\ idx' = IF idx < Len(commits) THEN idx + 1 ELSE idx
  /\ UNCHANGED <<entry, options, platform, source, commits, diffAnalysis, callOptions,
                 gen, result, entries, output, exitCode, calls, nCalls, started,
                 stderr, probe>>

achievementOptions(o) == [n \in CallOptionNames |-> IF n = "skipPR" THEN o.skipPr ELSE o[n]]

\* otherwise generateAchievement is called with { ...options, skipPR: options.skipPr }
CallGenerateAchievement ==
  /\ pc = "sample"
  /\ callOptions' = achievementOptions(options)
  /\ gen' = NoGen
  /\ nCalls' = nCalls + 1
  /\ pc' = "generateAchievement"
  /\ UNCHANGED <<entry, options, platform, source, commits, idx, diffAnalysis, result,
                 entries, output, exitCode, calls, started,
                 stderr, probe>>

(***************************************************************************)
(* achievement-generator.ts: generateAchievement                           *)
(***************************************************************************)
\* the loop variable bound to the first commit throughout
commit_First == commits[1]


commit == commits[idx]

prReference_NoPrefix(n) == "#" \o NatToStr(n)

\* `PR #${prInfo.number}`
prReference(n) == "PR #" \o NatToStr(n)

\* any token counts for the platform found
fetchKind_AnyToken(p, o) ==
  IF p \in {"github", "gitlab"} /\ (o.githubToken \/ o.gitlabToken) THEN p ELSE "none"


fetchKind_NoToken(p, o) == IF p \in {"github", "gitlab"} THEN p ELSE "none"

\* the token getPRInfo needs for the platform detectRepoInfo found
fetchKind(p, o) ==
  IF p = "github" /\ o.githubToken THEN "github"
  ELSE IF p = "gitlab" /\ o.gitlabToken THEN "gitlab"
  ELSE "none"

shouldSkipForAI_AnyTier(d, o, draw) == (o.apiKey \/ o.useLocalLlm) /\ draw

\* shouldSkipForAI, for a Math.random() below 0.5 (draw) or not
shouldSkipForAI(d, o, draw) ==
  /\ d.impactLevel = "low"
  /\ (o.apiKey \/ o.useLocalLlm)
  /\ draw

usePRInfo_IgnoresSkipPR(c, o) == ~helpfulOf[c.hash] /\ c.prNumber # 0

\* "when commit message is not helpful and PR exists"
usePRInfo(c, o) ==
  /\ ~o.skipPR
  /\ ~helpfulOf[c.hash]
  /\ c.prNumber # 0

\* the title stored on the commit is never looked at
cached_Never(c) == FALSE

\* if (commit.prTitle): "Use PR title if already fetched"
cached(c) == c.prTitle # ""

\* from the entry to the first await: the flags, the cached title, and
\* getPRInfo up to its fetch
GenerateAchievement ==
  /\ pc = "generateAchievement"
  /\ \E draw \in BOOLEAN, use \in {usePRInfo(commit, callOptions)},
        n \in {numberOf[commit.hash]} :
       LET skip == shouldSkipForAI(diffAnalysis, callOptions, draw)
           g0 == [NoGen EXCEPT !.shouldSkipForAI = skip, !.usePRInfo = use,
                               !.confidence = 75]
       IN IF ~(~skip /\ use)
          THEN /\ gen' = g0
               /\ pc' = "tryAI"
               /\ calls' = calls
          ELSE IF cached(commit)
          THEN /\ gen' = [g0 EXCEPT !.achievementText = commit.prTitle,
                                    !.confidence = 90, !.path = "title"]
               /\ pc' = "tryAI"
               /\ calls' = calls
          ELSE IF callOptions.skipPR \/ n \in {null, 0}
          THEN \* getPRInfo returns null
               /\ gen' = [g0 EXCEPT !.getPRInfoCalled = TRUE]
               /\ pc' = "tryAI"
               /\ calls' = calls
          ELSE IF fetchKind(platform, callOptions) # "none"
          THEN /\ gen' = [g0 EXCEPT !.getPRInfoCalled = TRUE, !.prNumber = n]
               /\ pc' = "fetchPR"
               /\ calls' = Append(calls, Call(fetchKind(platform, callOptions)))
          ELSE \* no token for the platform: the bare number
               /\ gen' = [g0 EXCEPT !.getPRInfoCalled = TRUE, !.prNumber = n,
                                    !.achievementText = prReference(n),
                                    !.confidence = 70, !.path = "number"]
               /\ pc' = "tryAI"
               /\ calls' = calls
  /\ UNCHANGED <<entry, options, platform, source, commits, idx, diffAnalysis,
                 callOptions, result, entries, output, exitCode, nCalls, started,
                 stderr, probe>>

\* a PRInfo | null that is null
NoPRInfo == [number |-> 0, title |-> ""]

\* fetchPRFromGitHub / fetchPRFromGitLab on the response: null when fetch
\* threw (the catch block) or the status was not ok
fetchPR(prNumber, response) ==
  IF response.threw THEN NoPRInfo
  ELSE IF ~response.ok THEN NoPRInfo
  ELSE [number |-> prNumber, title |-> response.title]

getPRInfo_NoFallback(prNumber, response) == fetchPR(prNumber, response)

\* the rest of getPRInfo: the fetched info, or the bare number
getPRInfo(prNumber, response) ==
  IF fetchPR(prNumber, response).number # 0 THEN fetchPR(prNumber, response)
  ELSE [number |-> prNumber, title |-> ""]

\* the fetch responds: a title is used and stored on the commit, a bare
\* number gives the PR reference
FetchPRResponds ==
  /\ pc = "fetchPR"
  /\ \E response \in PRResponses :
       LET prInfo == getPRInfo(gen.prNumber, response)
       IN IF prInfo.title # ""
          THEN /\ gen' = [gen EXCEPT !.achievementText = prInfo.title,
                                     !.confidence = 90, !.path = "title"]
               /\ commits' = [commits EXCEPT ![idx].prTitle = prInfo.title,
                                             ![idx].prDescription = "description",
                                             ![idx].prUrl = "url"]
          ELSE /\ gen' = [gen EXCEPT !.achievementText = prReference(prInfo.number),
                                     !.confidence = 70, !.path = "number"]
               /\ commits' = commits
  /\ pc' = "tryAI"
  /\ UNCHANGED <<entry, options, platform, source, idx, diffAnalysis, callOptions,
                 result, entries, output, exitCode, calls, nCalls, started,
                 stderr, probe>>

backendAllowed_IgnoresEnterprise(g, o) == g.achievementText = "" /\ ~g.shouldSkipForAI

\* !achievementText && !options.enterprise && !shouldSkipForAI
backendAllowed(g, o) == g.achievementText = "" /\ ~o.enterprise /\ ~g.shouldSkipForAI

\* the backend block asking the local backend before the remote one
TryAI_LocalFirst ==
  /\ pc = "tryAI"
  /\ IF backendAllowed(gen, callOptions)
     THEN IF callOptions.useLocalLlm
          THEN /\ calls' = calls \o <<Call("diff"), Call("ollama")>>
               /\ pc' = "ollama"
          ELSE IF callOptions.apiKey
          THEN /\ calls' = calls \o <<Call("diff"), Call("openai")>>
               /\ pc' = "openai"
          ELSE /\ calls' = Append(calls, Call("diff"))
               /\ pc' = "patterns"
     ELSE /\ calls' = calls
          /\ pc' = "patterns"
  /\ UNCHANGED <<entry, options, platform, source, commits, idx, diffAnalysis,
                 callOptions, gen, result, entries, output, exitCode, nCalls, started,
                 stderr, probe>>


\* "Try AI enhancement if no achievement yet and not enterprise mode"
TryAI ==
  /\ pc = "tryAI"
  /\ IF backendAllowed(gen, callOptions)
     THEN IF callOptions.apiKey
          THEN /\ calls' = calls \o <<Call("diff"), Call("openai")>>
               /\ pc' = "openai"
          ELSE IF callOptions.useLocalLlm
          THEN /\ calls' = calls \o <<Call("diff"), Call("ollama")>>
               /\ pc' = "ollama"
          ELSE /\ calls' = Append(calls, Call("diff"))
               /\ pc' = "patterns"
     ELSE /\ calls' = calls
          /\ pc' = "patterns"
  /\ UNCHANGED <<entry, options, platform, source, commits, idx, diffAnalysis,
                 callOptions, gen, result, entries, output, exitCode, nCalls, started,
                 stderr, probe>>

generateWithAI_Uncut(response, confidence, dataLocal) ==
  IF response.threw THEN NoResult
  ELSE IF ~response.ok THEN NoResult
  ELSE IF trim(response.content) # ""
  THEN [achievement |-> trim(response.content),
        confidence |-> confidence, aiGenerated |-> TRUE, dataLocal |-> dataLocal]
  ELSE NoResult

\* generateWithOpenAI / generateWithOllama on the response: null (NoResult)
\* when fetch threw, the status was not ok or the trimmed content is empty
generateWithAI(response, confidence, dataLocal) ==
  IF response.threw THEN NoResult
  ELSE IF ~response.ok THEN NoResult
  ELSE IF trim(response.content) # ""
  THEN [achievement |-> substring0(trim(response.content), MaxAchievementLen),
        confidence |-> confidence, aiGenerated |-> TRUE, dataLocal |-> dataLocal]
  ELSE NoResult

generateWithOpenAI(response) == generateWithAI(response, 95, FALSE)

generateWithOllama_RemoteConfidence(response) == generateWithAI(response, 95, TRUE)

generateWithOllama(response) == generateWithAI(response, 85, TRUE)

openAIOf == Tabulate(generateWithOpenAI, BackendResponses)

ollamaOf == Tabulate(generateWithOllama, BackendResponses)

\* the remote backend responds: its result is returned at once, null goes on
\* to the local backend or to the patterns
OpenAIResponds ==
  /\ pc = "openai"
  /\ \E response \in BackendResponses :
       LET aiResult == openAIOf[response]
       IN IF aiResult # NoResult
          THEN /\ result' = aiResult
               /\ gen' = [gen EXCEPT !.path = "openai"]
               /\ pc' = "returned"
               /\ calls' = calls
          ELSE /\ result' = result
               /\ gen' = [gen EXCEPT !.failed = @ \cup {"openai"}]
               /\ IF callOptions.useLocalLlm
                  THEN /\ calls' = Append(calls, Call("ollama"))
                       /\ pc' = "ollama"
                  ELSE /\ calls' = calls
                       /\ pc' = "patterns"
  /\ UNCHANGED <<entry, options, platform, source, commits, idx, diffAnalysis,
                 callOptions, entries, output, exitCode, nCalls, started,
                 stderr, probe>>

OllamaResponds ==
  /\ pc = "ollama"
  /\ \E response \in BackendResponses :
       LET ollamaResult == ollamaOf[response]
       IN IF ollamaResult # NoResult
          THEN /\ result' = ollamaResult
               /\ gen' = [gen EXCEPT !.path = "ollama"]
               /\ pc' = "returned"
          ELSE /\ result' = result
               /\ gen' = [gen EXCEPT !.failed = @ \cup {"ollama"}]
               /\ pc' = "patterns"
  /\ UNCHANGED <<entry, options, platform, source, commits, idx, diffAnalysis,
                 callOptions, entries, output, exitCode, calls, nCalls, started,
                 stderr, probe>>

\* "Fall back to pattern-based generation", and the final return
Patterns ==
  /\ pc = "patterns"
  /\ \E syn \in {synthesisOf[commit.hash][diffAnalysis.impactLevel]} :
     LET text == IF gen.achievementText = "" THEN syn.text ELSE gen.achievementText
         conf == IF gen.achievementText = "" /\ ~syn.matched THEN 60 ELSE gen.confidence
     IN /\ gen' = [gen EXCEPT !.achievementText = text, !.confidence = conf,
                              !.path = IF gen.achievementText # "" THEN gen.path
                                       ELSE IF text = "" THEN "subject"
                                       ELSE IF syn.matched THEN "template"
                                       ELSE "fallback"]
        /\ result' = [achievement |-> IF text # "" THEN text
                                      ELSE substring0(commit.message, MaxSubjectLen),
                      confidence |-> conf, aiGenerated |-> FALSE, dataLocal |-> TRUE]
        /\ calls' = IF gen.achievementText = "" THEN Append(calls, Call("diff")) ELSE calls
  /\ pc' = "returned"
  /\ UNCHANGED <<entry, options, platform, source, commits, idx, diffAnalysis,
                 callOptions, entries, output, exitCode, nCalls, started,
                 stderr, probe>>

(***************************************************************************)
(* generateCareerLog, after the call; the direct caller                    *)
(***************************************************************************)
entryOf(c, r, d) ==
  [date |-> c.date, achievement |-> r.achievement, confidence |-> r.confidence,
   aiGenerated |-> r.aiGenerated, dataLocal |-> r.dataLocal, impact |-> d.impactLevel,
   commit |-> c.hash, filesChanged |-> Len(c.files),
   linesChanged |-> c.insertions + c.deletions, signals |-> d.signals,
   changeMetrics |-> d.changeMetrics]

\* entries.push(...) and the next iteration
PushEntry ==
  /\ pc = "returned"
  /\ entry = "cli"
  /\ entries' = Append(entries, entryOf(commit, result, diffAnalysis))
  /\ gen' = NoGen
  /\ pc' = Advance
  /\ idx' = IF idx < Len(commits) THEN idx + 1 ELSE idx
  /\ UNCHANGED <<entry, options, platform, source, commits, diffAnalysis, callOptions,
                 result, output, exitCode, calls, nCalls, started, stderr, probe>>

\* the direct caller calls generateAchievement again on the same commit
CallAgain ==
  /\ pc = "returned"
  /\ entry = "api"
  /\ nCalls < MaxCalls
  /\ nCalls' = nCalls + 1
  /\ gen' = NoGen
  /\ pc' = "generateAchievement"
  /\ UNCHANGED <<entry, options, platform, source, commits, idx, diffAnalysis,
                 callOptions, result, entries, output, exitCode, calls, started,
                 stderr, probe>>

\* Array.prototype.sort with (a, b) => b.date - a.date: stable, date descending
RECURSIVE insertSorted(_, _)
insertSorted(sorted, e) ==
  IF Len(sorted) = 0 THEN <<e>>
  ELSE IF sorted[1].date < e.date THEN <<e>> \o sorted
  ELSE <<sorted[1]>> \o insertSorted(Tail(sorted), e)

\* the entries left in the order they were collected
sortEntries_Unsorted(es) == es

RECURSIVE sortEntries(_)
sortEntries(es) ==
  IF Len(es) = 0 THEN <<>>
  ELSE insertSorted(sortEntries(SubSeq(es, 1, Len(es) - 1)), es[Len(es)])

\* Step 3: the career log is built and written
WriteOutput ==
  /\ pc = "write"
  /\ output' = <<[totalCommits |-> Len(commits), entries |-> sortEntries(entries)]>>
  /\ exitCode' = 0
  /\ pc' = "exited"
  /\ UNCHANGED <<entry, options, platform, source, commits, idx, diffAnalysis,
                 callOptions, gen, result, entries, calls, nCalls, started,
                 stderr, probe>>

(***************************************************************************)
(* analyzeDiff applied on its own to a commit and a diff                   *)
(***************************************************************************)
ManyFiles == 11

ProbeFiles ==
  {<<>>, <<"README.md">>, <<"src/auth/login.ts">>,
   <<"package.json", "src/index.ts", "Dockerfile">>, <<"a.ts", "b.ts", "c.ts">>,
   [k \in 1..ManyFiles |-> "f" \o NatToStr(k) \o ".ts"]}

ProbeInsertions == {0, 60, 99, 100, 400, 500, 501, 600}

ProbeDeletions == {0, 1}

ProbeDiffs ==
  {[ok |-> FALSE, text |-> ""], [ok |-> TRUE, text |-> ""],
   [ok |-> TRUE, text |-> "+ use cache\n- slow"], [ok |-> TRUE, text |-> "+ speed\n"],
   [ok |-> TRUE, text |-> "+ URGENT hotfix\n"]}

Idle ==
  /\ entry = "none"
  /\ options = NoOptions
  /\ platform = "unknown"
  /\ source = <<>>
  /\ commits = <<>>
  /\ idx = 0
  /\ pc = "idle"
  /\ diffAnalysis = NoAnalysis
  /\ callOptions = NoCallOptions
  /\ gen = NoGen
  /\ result = NoResult
  /\ entries = <<>>
  /\ output = <<>>
  /\ exitCode = -1
  /\ calls = <<>>
  /\ nCalls = 0
  /\ started = FALSE
  /\ stderr = <<>>

InitAnalyzeDiff ==
  /\ Idle
  /\ \E f \in ProbeFiles, i \in ProbeInsertions, d \in ProbeDeletions, t \in ProbeDiffs :
       probe = [fn |-> "analyzeDiff", done |-> FALSE,
                commit |-> [files |-> f, insertions |-> i, deletions |-> d],
                diff |-> t, value |-> NoAnalysis]

ApplyAnalyzeDiff ==
  /\ probe.fn = "analyzeDiff"
  /\ ~probe.done
  /\ probe' = [probe EXCEPT !.done = TRUE,
                            !.value = analyzeDiff(probe.commit, probe.diff)]
  /\ UNCHANGED <<entry, options, platform, source, commits, idx, pc, diffAnalysis,
                 callOptions, gen, result, entries, output, exitCode, calls, nCalls,
                 started, stderr>>

SpecAnalyzeDiff == InitAnalyzeDiff /\ [][ApplyAnalyzeDiff]_vars

(***************************************************************************)
(* isCommitMessageHelpful applied on its own to a message                  *)
(***************************************************************************)
ProbeSubjects ==
  {"", "update", "Update", "fix", "change", "changes", "wip", "WIP", "merge", "bump",
   "work in progress", "Work In Progress", "work in progress now",
   "update ...", "Update ...", "update ....",
   "merge branch main", "Merge branch 'dev' into main", "a merge branch",
   "merge pull request #4", "Merge pull request #12 from a/b",
   "short msg", "ten chars!", "a        b", "fix the bug", "updates and fixes",
   "Add caching layer", "bump deps to 2.0"}

\* white space before and after the subject
ProbePaddings == {<<"", "">>, <<" ", "">>, <<"", "\n">>, <<"\t ", " ">>}

ProbeMessages == {p[1] \o s \o p[2] : s \in ProbeSubjects, p \in ProbePaddings}

InitIsCommitMessageHelpful ==
  /\ Idle
  /\ \E m \in ProbeMessages :
       probe = [fn |-> "isCommitMessageHelpful", done |-> FALSE, message |-> m,
                value |-> FALSE]

ApplyIsCommitMessageHelpful ==
  /\ probe.fn = "isCommitMessageHelpful"
  /\ ~probe.done
  /\ probe' = [probe EXCEPT !.done = TRUE,
                            !.value = isCommitMessageHelpful(probe.message)]
  /\ UNCHANGED <<entry, options, platform, source, commits, idx, pc, diffAnalysis,
                 callOptions, gen, result, entries, output, exitCode, calls, nCalls,
                 started, stderr>>

SpecIsCommitMessageHelpful ==
  InitIsCommitMessageHelpful /\ [][ApplyIsCommitMessageHelpful]_vars

(***************************************************************************)
(* extractPRNumber applied on its own to a subject and a body              *)
(***************************************************************************)
MaxRefs == 2

\* pieces of commit text; pattern is the first of PR_PATTERNS that matches
\* the piece (0: none does) and n the number it captures
ProbeRefs ==
  <<[text |-> "fixes #1", pattern |-> 1, n |-> 1],
    [text |-> "closes #2", pattern |-> 1, n |-> 2],
    [text |-> "Resolves PR #3", pattern |-> 1, n |-> 3],
    [text |-> "fix #4", pattern |-> 2, n |-> 4],
    [text |-> "#5", pattern |-> 2, n |-> 5],
    [text |-> "see PR 7", pattern |-> 2, n |-> 7],
    [text |-> "#0", pattern |-> 2, n |-> 0],
    [text |-> "PR: 8", pattern |-> 3, n |-> 8],
    [text |-> "pull request: 9", pattern |-> 4, n |-> 9],
    [text |-> "update docs", pattern |-> 0, n |-> 0]>>

\* the texts of the pieces refs[from..], separated by blanks
RECURSIVE refsText(_, _)
refsText(refs, from) ==
  IF from > Len(refs) THEN ""
  ELSE IF from = Len(refs) THEN ProbeRefs[refs[from]].text
  ELSE ProbeRefs[refs[from]].text \o " " \o refsText(refs, from + 1)

ProbeRefSeqs == UNION {[1..n -> 1..Len(ProbeRefs)] : n \in 0..MaxRefs}

\* the first piece is the subject, the others are the body
InitExtractPRNumber ==
  /\ Idle
  /\ \E refs \in ProbeRefSeqs :
       probe = [fn |-> "extractPRNumber", done |-> FALSE, refs |-> refs,
                message |-> IF Len(refs) = 0 THEN "" ELSE ProbeRefs[refs[1]].text,
                body |-> refsText(refs, 2), value |-> null]

ApplyExtractPRNumber ==
  /\ probe.fn = "extractPRNumber"
  /\ ~probe.done
  /\ probe' = [probe EXCEPT !.done = TRUE,
                            !.value = extractPRNumber(probe.message, probe.body)]
  /\ UNCHANGED <<entry, options, platform, source, commits, idx, pc, diffAnalysis,
                 callOptions, gen, result, entries, output, exitCode, calls, nCalls,
                 started, stderr>>

SpecExtractPRNumber == InitExtractPRNumber /\ [][ApplyExtractPRNumber]_vars

(***************************************************************************)
(* getPRInfo called on its own with the message of a commit                *)
(***************************************************************************)
ResolverOptionNames == {"skipPR", "githubToken", "gitlabToken"}

InitGetPRInfo ==
  /\ Idle
  /\ \E h \in Hashes, o \in [ResolverOptionNames -> BOOLEAN], p \in Platforms :
       probe = [fn |-> "getPRInfo", at |-> "called", commit |-> h, options |-> o,
                platform |-> p, fetched |-> "none",
                response |-> [threw |-> FALSE, ok |-> FALSE, title |-> ""],
                value |-> NoPRInfo]

\* getPRInfo up to its fetch, or to its return when it does not fetch
GetPRInfoCalled ==
  /\ probe.fn = "getPRInfo"
  /\ probe.at = "called"
  /\ \E n \in {numberOf[probe.commit]} :
       IF probe.options.skipPR \/ n \in {null, 0}
       THEN probe' = [probe EXCEPT !.at = "returned", !.value = NoPRInfo]
       ELSE IF fetchKind(probe.platform, probe.options) # "none"
       THEN probe' = [probe EXCEPT !.at = "fetch",
                                   !.fetched = fetchKind(probe.platform, probe.options)]
       ELSE probe' = [probe EXCEPT !.at = "returned",
                                   !.value = [number |-> n, title |-> ""]]
  /\ UNCHANGED <<entry, options, platform, source, commits, idx, pc, diffAnalysis,
                 callOptions, gen, result, entries, output, exitCode, calls, nCalls,
                 started, stderr>>

\* the fetch responds and getPRInfo returns
GetPRInfoResponds ==
  /\ probe.fn = "getPRInfo"
  /\ probe.at = "fetch"
  /\ \E response \in PRResponses, n \in {numberOf[probe.commit]} :
       probe' = [probe EXCEPT !.at = "returned", !.response = response,
                              !.value = getPRInfo(n, response)]
  /\ UNCHANGED <<entry, options, platform, source, commits, idx, pc, diffAnalysis,
                 callOptions, gen, result, entries, output, exitCode, calls, nCalls,
                 started, stderr>>

SpecGetPRInfo == InitGetPRInfo /\ [][GetPRInfoCalled \/ GetPRInfoResponds]_vars

(***************************************************************************)
(* The structural checks of analyzeDiff applied on their own to the counts *)
(* of added and removed lines of a diff                                    *)
(***************************************************************************)
MaxDiffLines == 205

InitStructuralSignals ==
  /\ Idle
  /\ \E a \in 0..MaxDiffLines, r \in 0..MaxDiffLines :
       probe = [fn |-> "structuralSignals", done |-> FALSE, addedLines |-> a,
                removedLines |-> r, value |-> <<>>]

ApplyStructuralSignals ==
  /\ probe.fn = "structuralSignals"
  /\ ~probe.done
  /\ probe' = [probe EXCEPT !.done = TRUE,
                            !.value = structuralSignals(probe.addedLines,
                                                        probe.removedLines)]
  /\ UNCHANGED <<entry, options, platform, source, commits, idx, pc, diffAnalysis,
                 callOptions, gen, result, entries, output, exitCode, calls, nCalls,
                 started, stderr>>

SpecStructuralSignals == InitStructuralSignals /\ [][ApplyStructuralSignals]_vars


(***************************************************************************)
(* The pattern block of generateAchievement applied on its own to a        *)
(* subject, a diff content, the files and the tier                         *)
(***************************************************************************)
SynthesisSubjects ==
  {"", "update docs", "optimize auth and fix tests", "encrypt and add feature",
   "add bug report", "resolve test flake", "more coverage"}

SynthesisDiffs == {"", "+ speed\n", "+ x\n- y\n- z\n- w"}

SynthesisFiles ==
  {<<>>, <<"README.md">>, <<"src/auth/login.ts">>,
   [k \in 1..ManyFiles |-> "f" \o NatToStr(k) \o ".ts"]}

InitPatternSynthesis ==
  /\ Idle
  /\ \E m \in SynthesisSubjects, d \in SynthesisDiffs, f \in SynthesisFiles, l \in Levels :
       probe = [fn |-> "patternSynthesis", done |-> FALSE,
                commit |-> [message |-> m, body |-> "", files |-> f],
                diffContent |-> d,
                diffAnalysis |-> [impactLevel |-> l,
                                  changeMetrics |-> [filesModified |-> Len(f)]],
                value |-> [text |-> "", confidence |-> 0, matched |-> FALSE]]

ApplyPatternSynthesis ==
  /\ probe.fn = "patternSynthesis"
  /\ ~probe.done
  /\ probe' = [probe EXCEPT !.done = TRUE,
                            !.value = patternSynthesis(probe.commit, probe.diffContent,
                                                       probe.diffAnalysis)]
  /\ UNCHANGED <<entry, options, platform, source, commits, idx, pc, diffAnalysis,
                 callOptions, gen, result, entries, output, exitCode, calls, nCalls,
                 started, stderr>>

SpecPatternSynthesis == InitPatternSynthesis /\ [][ApplyPatternSynthesis]_vars


Next ==
  \/ RunCLIRejects
  \/ RunCLI
  \/ ParseGitCommits
  \/ ParseGitCommitsFails
  \/ AnalyzeImpact
  \/ DropLowImpact
  \/ CallGenerateAchievement
  \/ GenerateAchievement
  \/ FetchPRResponds
  \/ TryAI
  \/ OpenAIResponds
  \/ OllamaResponds
  \/ Patterns
  \/ PushEntry
  \/ CallAgain
  \/ WriteOutput

Spec == Init /\ [][Next]_vars

(***************************************************************************)
(* Properties                                                              *)
(***************************************************************************)
BackendKinds == {"openai", "ollama"}

NetworkKinds == {"github", "gitlab", "openai", "ollama"}

\* the external calls of the given kinds issued so far
callsOf(kinds) == {k \in 1..Len(calls) : calls[k].kind \in kinds}

\* those issued during the current generateAchievement call
thisCall(kinds) == {k \in callsOf(kinds) : calls[k].call = nCalls}

\* the messages of GitCommits that are too short or generic
UnhelpfulMessages == {"fix #12", "wip", "update", "bump #4", ""}

\* a generateAchievement call is past its entry
InCall == pc \in {"fetchPR", "tryAI", "openai", "ollama", "patterns", "returned"}

Placeholder(n) == "PR #" \o NatToStr(n)

\* C1: with enterprise set in the options of generateAchievement, whatever
\* apiKey and useLocalLlm are, no generative backend is ever called and the
\* result is pattern-based and data-local.
EnterpriseNeverCallsBackend ==
  callOptions.enterprise =>
    /\ callsOf(BackendKinds) = {}
    /\ pc = "returned" => (~result.aiGenerated /\ result.dataLocal)

EnterpriseWithCredentialsReturned ==
  /\ pc = "returned"
  /\ callOptions.enterprise /\ callOptions.apiKey /\ callOptions.useLocalLlm
  /\ diffAnalysis.impactLevel = "high"
  /\ gen.path \in {"template", "fallback"}

\* C2: a result with dataLocal = true means that no request to the remote
\* generative backend was issued during the call that produced it.
DataLocalMeansNoRemoteRequest ==
  (pc = "returned" /\ result.dataLocal) => thisCall({"openai"}) = {}

\* C3: a CLI run with --enterprise issues no external network request,
\* whatever tokens are given: skipPr is forced and no backend is called.
EnterpriseRunIssuesNoNetworkRequest ==
  (entry = "cli" /\ options.enterprise) =>
    /\ callsOf(NetworkKinds) = {}
    /\ started => options.skipPr

EnterpriseRunWithTokenDone ==
  /\ entry = "cli" /\ options.enterprise /\ options.githubToken /\ platform = "github"
  /\ pc = "exited" /\ exitCode = 0
  /\ \E k \in 1..Len(entries) : entries[k].commit = 1

\* C4: --enterprise together with apiKey or useLocalLlm is rejected by
\* runCLI with an error and exit code 1, and generateCareerLog never starts.
ConflictRejectedBeforePipeline ==
  (entry = "cli" /\ options.enterprise /\ (options.apiKey \/ options.useLocalLlm)) =>
    /\ ~started
    /\ pc \in {"runCLI", "exited"}
    /\ commits = <<>> /\ calls = <<>> /\ entries = <<>> /\ output = <<>>
    /\ pc = "exited" =>
         /\ exitCode = 1
         /\ stderr = <<"Error: --enterprise mode cannot be used with AI options">>

ConflictRejected ==
  /\ entry = "cli" /\ options.enterprise /\ options.useLocalLlm /\ ~options.apiKey
  /\ pc = "exited"

\* C5: a CLI run without apiKey, useLocalLlm, githubToken and gitlabToken
\* issues no external network request; a reference number of an unhelpful
\* message resolves to the bare number without a fetch.
DefaultRunIssuesNoNetworkRequest ==
  (/\ entry = "cli"
   /\ ~options.apiKey /\ ~options.useLocalLlm
   /\ ~options.githubToken /\ ~options.gitlabToken) =>
    /\ callsOf(NetworkKinds) = {}
    /\ (pc = "returned" /\ gen.getPRInfoCalled) =>
         /\ result.achievement = Placeholder(commit.prNumber)
         /\ result.confidence = 70

DefaultRunResolvedNumber ==
  /\ entry = "cli" /\ options = NoOptions /\ platform = "github"
  /\ pc = "returned" /\ gen.getPRInfoCalled /\ commit.hash = 1

\* C6: the confidence of a result agrees with the path that produced it:
\* 0.95 remote backend (not data-local), 0.85 local backend, and for
\* pattern results 0.9 title, 0.7 number, 0.75 template, 0.6 tier fallback,
\* all data-local.
ConfidenceMatchesProvenance ==
  pc = "returned" =>
    IF result.aiGenerated
    THEN \/ result.confidence = 95 /\ ~result.dataLocal /\ gen.path = "openai"
         \/ result.confidence = 85 /\ result.dataLocal /\ gen.path = "ollama"
    ELSE /\ result.dataLocal
         /\ \/ /\ result.confidence = 90 /\ gen.path = "title"
               /\ result.achievement = commit.prTitle
            \/ /\ result.confidence = 70 /\ gen.path = "number"
               /\ result.achievement = Placeholder(gen.prNumber)
            \/ /\ result.confidence = 75 /\ gen.path = "template"
               /\ synthesisOf[commit.hash][diffAnalysis.impactLevel].matched
            \/ /\ result.confidence = 60 /\ gen.path = "fallback"
               /\ ~synthesisOf[commit.hash][diffAnalysis.impactLevel].matched

LocalBackendAfterRemoteFailure ==
  /\ pc = "returned" /\ gen.path = "ollama"
  /\ thisCall({"openai"}) # {}

\* C7: a commit with insertions + deletions > 500 is classified high,
\* whatever its files, the keywords of its diff and the diff retrieval.
LargeChangeIsHigh ==
  (/\ probe.fn = "analyzeDiff" /\ probe.done
   /\ probe.commit.insertions + probe.commit.deletions > 500) =>
    probe.value.impactLevel = "high"

LargeChangeWithoutDiff ==
  /\ probe.fn = "analyzeDiff" /\ probe.done
  /\ probe.commit.insertions + probe.commit.deletions > 500
  /\ probe.commit.files = <<"README.md">>
  /\ ~probe.diff.ok

\* the paths of ProbeFiles that the critical-path table covers
CriticalPaths == {"src/auth/login.ts", "package.json", "Dockerfile"}

\* C8: a commit with a critical path among its files is classified high,
\* criticalFilesModified counts the critical paths and each has its one
\* 'Critical file modified: <path>' signal.
CriticalFileIsHigh ==
  (probe.fn = "analyzeDiff" /\ probe.done) =>
    LET files == probe.commit.files
        crit == {k \in 1..Len(files) : files[k] \in CriticalPaths}
        signals == probe.value.signals
    IN crit # {} =>
         /\ probe.value.impactLevel = "high"
         /\ probe.value.changeMetrics.criticalFilesModified = Cardinality(crit)
         /\ \A k \in crit :
              Cardinality({j \in 1..Len(signals) :
                             signals[j] = "Critical file modified: " \o files[k]}) = 1
         /\ Cardinality({j \in 1..Len(signals) :
                           startsWith(signals[j], "Critical file modified: ")})
              = Cardinality(crit)

TwoCriticalFilesSmallChange ==
  /\ probe.fn = "analyzeDiff" /\ probe.done
  /\ probe.commit.files = <<"package.json", "src/index.ts", "Dockerfile">>
  /\ probe.commit.insertions + probe.commit.deletions < 100
  /\ ~probe.diff.ok

\* C9: unless skipPR is off, the message is unhelpful and the commit has a
\* reference number, the text is never taken from a reference, a cached
\* prTitle is not used, and getPRInfo is not called.
ReferenceOnlyWhenAllThree ==
  (/\ InCall
   /\ ~(/\ ~callOptions.skipPR
        /\ commit.message \in UnhelpfulMessages
        /\ commit.prNumber # 0)) =>
    /\ gen.path \notin {"title", "number"}
    /\ ~gen.getPRInfoCalled
    /\ thisCall({"github", "gitlab"}) = {}
    /\ (pc = "returned" /\ commit.prTitle # "") => result.achievement # commit.prTitle

CachedTitleSkipped ==
  /\ pc = "returned"
  /\ callOptions.skipPR
  /\ commit.prTitle # "" /\ commit.prNumber # 0
  /\ commit.message \in UnhelpfulMessages

OnReferencePath ==
  /\ pc = "returned"
  /\ ~callOptions.skipPR
  /\ commit.message \in UnhelpfulMessages
  /\ commit.prNumber # 0
  /\ ~gen.shouldSkipForAI

PatternLocalNoBackend ==
  ~result.aiGenerated /\ result.dataLocal /\ thisCall(BackendKinds) = {}

\* C10 as stated: on the reference path a title, cached or fetched, is the
\* text verbatim with confidence 0.9, and a bare number gives the text
\* "Reference #<n>" with confidence 0.7; both are pattern results, data-local,
\* with no backend call.
ReferencePathTextAsStated ==
  OnReferencePath =>
    /\ commit.prTitle # "" =>
         /\ result.achievement = commit.prTitle /\ result.confidence = 90
         /\ PatternLocalNoBackend
    /\ (commit.prTitle = "" /\ gen.prNumber # 0) =>
         /\ result.achievement = "Reference #" \o NatToStr(gen.prNumber)
         /\ result.confidence = 70
         /\ PatternLocalNoBackend

\* C10, amended: the same, the text for a bare number being "PR #<n>".
ReferencePathText ==
  OnReferencePath =>
    /\ commit.prTitle # "" =>
         /\ result.achievement = commit.prTitle /\ result.confidence = 90
         /\ PatternLocalNoBackend
    /\ (commit.prTitle = "" /\ gen.prNumber # 0) =>
         /\ result.achievement = "PR #" \o NatToStr(gen.prNumber)
         /\ result.confidence = 70
         /\ PatternLocalNoBackend

NumberAfterFailedFetch ==
  /\ OnReferencePath
  /\ gen.path = "number"
  /\ thisCall({"github"}) # {}

\* the generic phrases as the specification lists them
StatedGenericPhrases ==
  {"update", "fix", "changes", "wip", "work in progress", "merge", "bump"}

\* the phrases the specification lists with an ellipsis
StatedGenericOpenings == {"merge branch", "merge pull request"}

\* s without the white space around it, lower-cased
Normalised(s) == toLowerCase(trim(s))

HelpfulApplied == probe.fn = "isCommitMessageHelpful" /\ probe.done

\* C11 as stated: a message is unhelpful exactly when, trimmed, it is shorter
\* than 10 characters or is, case-insensitively, one of update, fix, changes,
\* wip, work in progress, merge, bump, or a text opening with merge branch or
\* merge pull request; it is helpful otherwise, and trimming the argument
\* first does not change the answer.
HelpfulExactlyAsStated ==
  HelpfulApplied =>
    /\ probe.value =
         ~(\/ Len(trim(probe.message)) < 10
           \/ Normalised(probe.message) \in StatedGenericPhrases
           \/ \E w \in StatedGenericOpenings : startsWith(Normalised(probe.message), w))
    /\ probe.value = isCommitMessageHelpful(trim(probe.message))

\* C11, amended: the same, the whole-string phrases being update, fix,
\* change, changes, wip, work in progress, merge, update ... and bump.
HelpfulExactly ==
  HelpfulApplied =>
    /\ probe.value =
         ~(\/ Len(trim(probe.message)) < 10
           \/ Normalised(probe.message) \in
                StatedGenericPhrases \cup {"change", "update ..."}
           \/ \E w \in StatedGenericOpenings : startsWith(Normalised(probe.message), w))
    /\ probe.value = isCommitMessageHelpful(trim(probe.message))

PaddedGenericPhraseUnhelpful ==
  /\ HelpfulApplied
  /\ probe.message = "\t Work In Progress "
  /\ ~probe.value

ExtractApplied == probe.fn = "extractPRNumber" /\ probe.done

\* the positions of the pieces of the probed text that pattern p matches
RefsOf(p) == {k \in 1..Len(probe.refs) : ProbeRefs[probe.refs[k]].pattern = p}

Leftmost(ks) == CHOOSE k \in ks : \A j \in ks : k <= j

\* C12: over subject + ' ' + body the patterns are tried in their fixed
\* order and the capture of the first pattern that matches is returned, at
\* its leftmost match: an explicit close-keyword reference wins over a bare
\* #M wherever the bare one stands, the leftmost of several explicit
\* references is returned, and null is returned when no pattern matches.
FirstPatternLeftmostMatch ==
  ExtractApplied =>
    /\ RefsOf(1) # {} => probe.value = ProbeRefs[probe.refs[Leftmost(RefsOf(1))]].n
    /\ (\A p \in PR_PATTERNS : RefsOf(p) = {}) <=> probe.value = null
    /\ \A p \in PR_PATTERNS :
         (RefsOf(p) # {} /\ \A q \in PR_PATTERNS : q < p => RefsOf(q) = {}) =>
           probe.value = ProbeRefs[probe.refs[Leftmost(RefsOf(p))]].n

ExplicitAfterBare ==
  /\ ExtractApplied
  /\ probe.message = "#5" /\ probe.body = "closes #2"
  /\ probe.value = 2

\* the reference number in the subject and body of each commit of
\* GitCommits, 0 where there is none
ReferenceNumbers == <<12, 0, 7, 3, 4, 0>>

\* the options hold the token of the platform the repository is on
TokenForPlatform(p, o) ==
  \/ p = "github" /\ o.githubToken
  \/ p = "gitlab" /\ o.gitlabToken

\* C13: getPRInfo always returns: none when skipPR is set or the text has
\* no reference number; otherwise the bare number without a title whenever
\* the platform is unknown, its token is missing, the fetch throws or its
\* status is not ok; a title comes only with a successful fetch.
GetPRInfoDegrades ==
  probe.fn = "getPRInfo" =>
    LET n == ReferenceNumbers[probe.commit]
        o == probe.options
        fetches == ~o.skipPR /\ n # 0 /\ TokenForPlatform(probe.platform, o)
    IN /\ probe.at \in {"called", "fetch", "returned"}
       /\ probe.at = "fetch" => fetches
       /\ probe.at = "returned" =>
            /\ (o.skipPR \/ n = 0) <=> probe.value = NoPRInfo
            /\ ~(o.skipPR \/ n = 0) => probe.value.number = n
            /\ probe.fetched # "none" <=> fetches
            /\ (~fetches \/ probe.response.threw \/ ~probe.response.ok) =>
                 probe.value.title = ""
            /\ (fetches /\ probe.response.ok) =>
                 probe.value = [number |-> n, title |-> probe.response.title]

BareNumberAfterThrownFetch ==
  /\ probe.fn = "getPRInfo" /\ probe.at = "returned"
  /\ probe.fetched = "gitlab" /\ probe.response.threw
  /\ probe.value = [number |-> 7, title |-> ""]

\* C14: the random skip is applied only to a low commit with a backend
\* configured; when it is applied, the call issues no backend request and
\* no reference resolution, uses no cached title, and returns a pattern
\* result: not AI-generated, data-local, confidence 0.75 or 0.6.
RandomSkipStaysLocal ==
  (InCall /\ gen.shouldSkipForAI) =>
    /\ diffAnalysis.impactLevel = "low"
    /\ callOptions.apiKey \/ callOptions.useLocalLlm
    /\ pc \notin {"fetchPR", "openai", "ollama"}
    /\ thisCall(NetworkKinds) = {}
    /\ ~gen.getPRInfoCalled
    /\ pc = "returned" =>
         /\ ~result.aiGenerated /\ result.dataLocal
         /\ result.confidence \in {75, 60}
         /\ gen.path \in {"template", "fallback"}
         /\ commit.prTitle # "" => result.achievement # commit.prTitle

SkippedWithReferenceAndBackend ==
  /\ entry = "cli" /\ pc = "returned" /\ gen.shouldSkipForAI
  /\ commit.hash = 5
  /\ callOptions.apiKey /\ callOptions.useLocalLlm
  /\ ~callOptions.skipPR /\ callOptions.githubToken /\ platform = "github"

\* a backend result: its text is not blank and has at most 150 characters
BackendResultUsable ==
  (pc = "returned" /\ result.aiGenerated) =>
    /\ trim(result.achievement) # ""
    /\ Len(result.achievement) <= MaxAchievementLen
    /\ thisCall(BackendKinds) # {}

\* a backend call that failed is followed by the next step of the call
FailureGoesOn ==
  /\ "openai" \in gen.failed => pc \in {"ollama", "patterns", "returned"}
  /\ "ollama" \in gen.failed => pc \in {"patterns", "returned"}

\* C15 as stated: after a backend call that failed (thrown fetch, status not
\* ok, blank payload) the call goes on to the local patterns and returns a
\* result that is not AI-generated, with confidence 0.75 or 0.6; a backend
\* result is returned only with a non-blank text of at most 150 characters.
BackendFailureFallsToPatternsAsStated ==
  /\ FailureGoesOn
  /\ BackendResultUsable
  /\ (pc = "returned" /\ gen.failed # {}) =>
       /\ ~result.aiGenerated
       /\ result.confidence \in {75, 60}

\* C15, amended: a failed remote call goes on to the local backend when
\* useLocalLlm is set, and the result is that backend's when it succeeds;
\* in every other case a failed call ends in the local patterns.
BackendFailureFallsThrough ==
  /\ FailureGoesOn
  /\ BackendResultUsable
  /\ ("openai" \in gen.failed /\ callOptions.useLocalLlm) => thisCall({"ollama"}) # {}
  /\ (pc = "returned" /\ gen.failed # {}) =>
       IF gen.failed = {"openai"} /\ callOptions.useLocalLlm
       THEN /\ result.aiGenerated /\ result.dataLocal
            /\ result.confidence = 85
       ELSE /\ ~result.aiGenerated
            /\ result.confidence \in {75, 60}
            /\ gen.path \in {"template", "fallback"}

BothBackendsFailed ==
  /\ pc = "returned"
  /\ gen.failed = {"openai", "ollama"}
  /\ ~result.aiGenerated /\ result.confidence = 60

\* two entries of calls that belong to the processing of the same commit:
\* the same commit of a run, the same generateAchievement call of a caller
SameProcessing(j, k) ==
  /\ calls[j].commit = calls[k].commit
  /\ entry = "api" => calls[j].call = calls[k].call

\* C16: while one commit is processed, the diff retrieval, the
\* reference-platform fetch, the remote backend call and the local backend
\* call are each issued at most once.
EachExternalCallAtMostOnce ==
  \A j, k \in 1..Len(calls) :
    (calls[j].kind = calls[k].kind /\ SameProcessing(j, k)) => j = k

\* C17: when the commit source yields no commit, generateCareerLog reports
\* 'No commits found' and exits with code 1; no commit is classified or
\* synthesized and no output is written.
NoCommitsIsTerminal ==
  (/\ entry = "cli" /\ started /\ pc # "parseGitCommits"
   /\ commits = <<>>
   /\ stderr # <<"Failed to generate career log">>) =>
    /\ pc = "exited" /\ exitCode = 1
    /\ stderr = <<"No commits found">>
    /\ output = <<>> /\ entries = <<>>
    /\ calls = <<>> /\ nCalls = 0

NoCommitsReported ==
  /\ entry = "cli" /\ source = <<>> /\ pc = "exited"
  /\ options.skipLowImpact /\ options.githubToken
  /\ stderr = <<"No commits found">>

(***************************************************************************)
(* C18: the entries written to the output are ordered by commit timestamp  *)
(* descending, whatever order the source supplied the commits in and       *)
(* whichever commits were dropped: of two adjacent output entries the      *)
(* earlier one's timestamp is not older than the later one's, and the      *)
(* written entries are the collected ones.                                 *)
(***************************************************************************)
Written == output # <<>>

EntriesOf(h) == {k \in 1..Len(output[1].entries) : output[1].entries[k].commit = h}

CallsOf(h) == {k \in 1..Len(calls) : calls[k].commit = h}

OnlyLowCommitsDropped ==
  (Written /\ entry = "cli") =>
    /\ output[1].totalCommits = Len(source)
    /\ nCalls = Len(output[1].entries)
    /\ \A k \in 1..Len(commits) :
         \E a \in {analysisOf[commits[k].hash]}, n \in {Cardinality(EntriesOf(commits[k].hash))} :
           /\ n <= 1
           /\ a.impactLevel \in {"high", "medium"} => n = 1
           /\ ~options.skipLowImpact => n = 1
           /\ \A j \in EntriesOf(commits[k].hash) : output[1].entries[j].impact = a.impactLevel
           /\ n = 0 => /\ Cardinality(CallsOf(commits[k].hash)) = 1
                       /\ \A j \in CallsOf(commits[k].hash) : calls[j].kind = "diff"

\* a log written with skipLowImpact on, where the low commit was dropped and
\* the other one kept
LowDroppedOtherKept ==
  /\ Written
  /\ entry = "cli"
  /\ options.skipLowImpact
  /\ Len(commits) = 2
  /\ Len(output[1].entries) = 1
  /\ output[1].entries[1].impact \in {"high", "medium"}
  /\ output[1].totalCommits = 2

(***************************************************************************)
(* C20: the tier analyzeDiff returns is a first-match function of the      *)
(* total of lines, the number of files, the number of critical files and   *)
(* whether the diff holds a critical keyword or a performance keyword:     *)
(* high when the lines exceed 500, a critical file is modified or a        *)
(* critical keyword is found; otherwise medium when the lines are within   *)
(* 100..500, the files within 3..10 or a performance keyword is found;     *)
(* otherwise low.  More than 10 files with fewer than 100 lines, no        *)
(* critical file and no keyword is low.                                    *)
(***************************************************************************)
TierAsStated(totalLines, filesModified, criticalFilesModified, criticalFound, performanceFound) ==
  IF totalLines > 500 \/ criticalFilesModified > 0 \/ criticalFound THEN "high"
  ELSE IF \/ (100 <= totalLines /\ totalLines <= 500)
          \/ (3 <= filesModified /\ filesModified <= 10)
          \/ performanceFound
  THEN "medium"
  ELSE "low"

KeywordFound(table, diff) ==
  diff.ok /\ \E k \in 1..Len(table) : includes(toLowerCase(diff.text), toLowerCase(table[k]))

AnalyzeDiffApplied == probe.fn = "analyzeDiff" /\ probe.done

TierIsFirstMatch ==
  AnalyzeDiffApplied =>
    \E totalLines \in {probe.commit.insertions + probe.commit.deletions},
       filesModified \in {Len(probe.commit.files)},
       criticalFilesModified \in {Cardinality({k \in 1..Len(probe.commit.files) :
                                                 probe.commit.files[k] \in CriticalPaths})},
       criticalFound \in {KeywordFound(CRITICAL_KEYWORDS, probe.diff)},
       performanceFound \in {KeywordFound(PERFORMANCE_KEYWORDS, probe.diff)} :
      /\ probe.value.impactLevel =
           TierAsStated(totalLines, filesModified, criticalFilesModified,
                        criticalFound, performanceFound)
      /\ (/\ filesModified > 10 /\ totalLines < 100 /\ criticalFilesModified = 0
          /\ ~criticalFound /\ ~performanceFound)
         => probe.value.impactLevel = "low"

\* more than ten files, 61 lines and a diff without keyword: low
ManyFilesFewLinesLow ==
  /\ AnalyzeDiffApplied
  /\ Len(probe.commit.files) = ManyFiles
  /\ probe.commit.insertions + probe.commit.deletions = 61
  /\ probe.diff = [ok |-> TRUE, text |-> ""]
  /\ probe.value.impactLevel = "low"

(***************************************************************************)
(* C21: on the medium branch 'Moderate change: <n> lines' is among the     *)
(* signals exactly when 100 <= totalLines <= 500, and 'Multiple files:     *)
(* <n> files' exactly when 3 <= filesModified <= 10.                       *)
(***************************************************************************)
HasSignal(signals, s) == \E k \in 1..Len(signals) : signals[k] = s

MediumSizeSignalsFollowConditions ==
  (AnalyzeDiffApplied /\ probe.value.impactLevel = "medium") =>
    \E totalLines \in {probe.commit.insertions + probe.commit.deletions},
       filesModified \in {Len(probe.commit.files)} :
      /\ HasSignal(probe.value.signals,
                   "Moderate change: " \o NatToStr(totalLines) \o " lines")
           <=> (100 <= totalLines /\ totalLines <= 500)
      /\ HasSignal(probe.value.signals,
                   "Multiple files: " \o NatToStr(filesModified) \o " files")
           <=> (3 <= filesModified /\ filesModified <= 10)

(***************************************************************************)
(* C22: the structural signals.  As stated: for every pair of counts at    *)
(* most one of 'Large refactoring detected', 'New feature implementation'  *)
(* and 'Bug fix pattern detected' is appended.  As the code has it: 'New   *)
(* feature implementation' excludes the other two, while 'Large            *)
(* refactoring detected' and 'Bug fix pattern detected' are appended       *)
(* together exactly when more than 100 lines are added and more than twice *)
(* as many are removed.                                                    *)
(***************************************************************************)
StructuralApplied == probe.fn = "structuralSignals" /\ probe.done

StructuralNames ==
  {"Large refactoring detected", "New feature implementation", "Bug fix pattern detected"}

StructuralSignalsExclusive ==
  StructuralApplied =>
    Cardinality({s \in StructuralNames : HasSignal(probe.value, s)}) <= 1

StructuralSignalsOverlapOnlyRefactoringAndFix ==
  StructuralApplied =>
    /\ HasSignal(probe.value, "New feature implementation") => Len(probe.value) = 1
    /\ Len(probe.value) <= 2
    /\ (/\ HasSignal(probe.value, "Large refactoring detected")
        /\ HasSignal(probe.value, "Bug fix pattern detected"))
       <=> (probe.addedLines > 100 /\ probe.removedLines > 2 * probe.addedLines)

\* 101 lines added and 203 removed: a refactoring and a fix at once
RefactoringAndFixTogether ==
  /\ StructuralApplied
  /\ probe.addedLines = 101
  /\ probe.removedLines = 203
  /\ probe.value = <<"Large refactoring detected", "Bug fix pattern detected">>

(***************************************************************************)
(* C23: when the diff cannot be read analyzeDiff still returns, with the   *)
(* classification computed from the metadata alone: no keyword signal and  *)
(* no structural signal, one signal for each critical file, the tier of    *)
(* the tier rule without keywords; 600 changed lines in one non-critical   *)
(* file give tier high with the one signal 'Large change: 600 lines'.      *)
(***************************************************************************)
MetadataSignalOpenings ==
  {"Critical file modified: ", "Large change: ", "Moderate change: ", "Multiple files: ",
   "Small change: ", "Few files: "}

DiffFailureUsesMetadataOnly ==
  (AnalyzeDiffApplied /\ ~probe.diff.ok) =>
    \E totalLines \in {probe.commit.insertions + probe.commit.deletions},
       files \in {probe.commit.files}, signals \in {probe.value.signals} :
      /\ \A k \in 1..Len(signals) :
           /\ ~startsWith(signals[k], "Critical keyword found")
           /\ ~startsWith(signals[k], "Performance-related")
           /\ signals[k] \notin StructuralNames
           /\ \E w \in MetadataSignalOpenings : startsWith(signals[k], w)
      /\ \A k \in 1..Len(files) :
           HasSignal(signals, "Critical file modified: " \o files[k])
             <=> files[k] \in CriticalPaths
      /\ probe.value.impactLevel =
           TierAsStated(totalLines, Len(files),
                        Cardinality({k \in 1..Len(files) : files[k] \in CriticalPaths}),
                        FALSE, FALSE)
      /\ (totalLines = 600 /\ files = <<"README.md">>)
           => /\ probe.value.impactLevel = "high"
              /\ signals = <<"Large change: 600 lines">>

\* 600 lines in README.md, the diff unreadable
LargeChangeUnreadableDiff ==
  /\ AnalyzeDiffApplied
  /\ ~probe.diff.ok
  /\ probe.commit = [files |-> <<"README.md">>, insertions |-> 600, deletions |-> 0]
  /\ probe.value.impactLevel = "high"
  /\ probe.value.signals = <<"Large change: 600 lines">>

(***************************************************************************)
(* C24: the reference annotation of a commit (prTitle, prDescription,      *)
(* prUrl) is written only by a fetch that returned a title, on a commit    *)
(* without title, hence at most once; no other field of a commit record    *)
(* changes after the records are built.  Once prTitle is set no call to    *)
(* generateAchievement on the commit calls getPRInfo or fetches from the   *)
(* reference platform, and a call that takes the reference path returns    *)
(* the stored title.                                                       *)
(***************************************************************************)
AnnotationFields == {"prTitle", "prDescription", "prUrl"}

ReferenceKinds == {"github", "gitlab"}

AnnotationWrittenOnceThenCached ==
  [][/\ (commits' # commits /\ pc # "parseGitCommits") =>
          /\ pc = "fetchPR"
          /\ calls[Len(calls)].kind \in ReferenceKinds
          /\ calls[Len(calls)].commit = commits[idx].hash
          /\ Len(commits') = Len(commits)
          /\ \A k \in 1..Len(commits) : k # idx => commits'[k] = commits[k]
          /\ \A f \in DOMAIN commits[idx] :
               f \notin AnnotationFields => commits'[idx][f] = commits[idx][f]
          /\ commits[idx].prTitle = ""
          /\ commits'[idx].prTitle # ""
          /\ gen'.achievementText = commits'[idx].prTitle
     /\ (pc = "generateAchievement" /\ commits[idx].prTitle # "") =>
          /\ calls' = calls
          /\ ~gen'.getPRInfoCalled
          /\ pc' # "fetchPR"
          /\ (gen'.usePRInfo /\ ~gen'.shouldSkipForAI) =>
               /\ gen'.achievementText = commits[idx].prTitle
               /\ gen'.confidence = 90
    ]_vars

\* the direct caller's second call on a commit whose title the first call
\* fetched: the title is returned again and the fetch of the first call is
\* the only one
SecondCallUsedStoredTitle ==
  /\ entry = "api"
  /\ pc = "returned"
  /\ nCalls = 2
  /\ commits[1].prTitle # ""
  /\ result.achievement = commits[1].prTitle
  /\ result.confidence = 90
  /\ \E k \in 1..Len(calls) :
       /\ calls[k].kind \in ReferenceKinds
       /\ calls[k].call = 1
       /\ \A j \in 1..Len(calls) : calls[j].kind \in ReferenceKinds => j = k

(***************************************************************************)
(* C25: generateCareerLog processes the commits one at a time in the order *)
(* supplied.  Every external call is issued for the commit the loop is at; *)
(* an entry is appended only when the synthesis of that commit has         *)
(* returned, and is the entry of that commit; the loop moves to the next   *)
(* commit, and starts its classification, only after the drop decision or  *)
(* the synthesis of the current one; so the calls and the entries appear   *)
(* in the order of the commits and no entry of a commit is appended while  *)
(* another one is processed.                                               *)
(***************************************************************************)
Position(h) == CHOOSE k \in 1..Len(commits) : commits[k].hash = h

OneCommitAtATime ==
  [][entry = "cli" =>
       /\ \A k \in (Len(calls) + 1)..Len(calls') :
            calls'[k].commit = commits[idx].hash /\ idx' = idx
       /\ entries' # entries =>
            /\ pc = "returned"
            /\ Len(entries') = Len(entries) + 1
            /\ SubSeq(entries', 1, Len(entries)) = entries
            /\ entries'[Len(entries')].commit = commits[idx].hash
       /\ idx' # idx =>
            /\ idx' = idx + 1
            /\ pc' = "analyzeImpact"
            /\ idx = 0 \/ pc \in {"sample", "returned"}
       /\ calls' # calls =>
            \A k \in 1..Len(calls) : Position(calls[k].commit) <= idx
       /\ entries' # entries =>
            \A k \in 1..Len(entries) : Position(entries[k].commit) < idx
    ]_vars

\* two commits, both synthesized with a backend call, the log written
TwoCommitsInTurn ==
  /\ entry = "cli"
  /\ Written
  /\ Len(commits) = 2
  /\ Len(entries) = 2
  /\ \E j, k \in 1..Len(calls) :
       /\ j < k
       /\ calls[j].kind \in {"openai", "ollama"} /\ calls[j].commit = commits[1].hash
       /\ calls[k].kind \in {"openai", "ollama"} /\ calls[k].commit = commits[2].hash

(***************************************************************************)
(* C26: getPRInfo fetches from GitHub only for a GitHub remote with        *)
(* githubToken supplied and from GitLab only for a GitLab remote with      *)
(* gitlabToken supplied; never for an unknown platform nor with the token  *)
(* of the other platform alone; and a call that has fetched returns on the *)
(* response, without a second fetch.                                       *)
(***************************************************************************)
FetchOnlyWithMatchingToken ==
  [][probe.fn = "getPRInfo" =>
       /\ probe'.fetched \in {"none", "github", "gitlab"}
       /\ probe'.fetched = "github" =>
            probe.platform = "github" /\ probe.options.githubToken
       /\ probe'.fetched = "gitlab" =>
            probe.platform = "gitlab" /\ probe.options.gitlabToken
       /\ probe.platform = "unknown" => probe'.fetched = "none"
       /\ probe'.at = "fetch" => probe.at = "called" /\ probe'.fetched # "none"
       /\ probe.at = "fetch" => probe'.at = "returned" /\ probe'.fetched = probe.fetched
    ]_vars

\* a GitHub remote, only gitlabToken supplied, a commit referring to #12:
\* the bare number without a fetch
OtherPlatformTokenNoFetch ==
  /\ probe.fn = "getPRInfo" /\ probe.at = "returned"
  /\ probe.platform = "github"
  /\ ~probe.options.githubToken /\ probe.options.gitlabToken /\ ~probe.options.skipPR
  /\ probe.fetched = "none"
  /\ probe.value = [number |-> 12, title |-> ""]

(***************************************************************************)
(* C27: pattern synthesis tries the templates in the order performance,    *)
(* security, feature, bugfix, testing; the first whose keywords hit the    *)
(* lower-cased subject, body and diff gives the text, with confidence      *)
(* 0.75; when none hits, the text follows the tier and the file count,     *)
(* with confidence 0.6.                                                    *)
(***************************************************************************)
StatedOrder == <<"performance", "security", "feature", "bugfix", "testing">>

StatedKeywords ==
  [performance |-> {"performance", "optimize", "cache", "speed", "latency"},
   security |-> {"security", "encrypt", "vulnerability", "auth", "sanitize"},
   feature |-> {"implement", "add", "create", "feature", "introduce"},
   bugfix |-> {"fix", "resolve", "bug", "error", "issue"},
   testing |-> {"test", "testing", "coverage", "spec"}]

TemplateOpening ==
  [performance |-> "Optimized ", security |-> "Enhanced security in ",
   feature |-> "Implemented ", bugfix |-> "Fixed ",
   testing |-> "Improved code reliability with "]

SynthesisApplied == probe.fn = "patternSynthesis" /\ probe.done

FirstTemplateElseTier ==
  SynthesisApplied =>
    \E text \in {toLowerCase(probe.commit.message \o " " \o probe.commit.body \o " "
                             \o probe.diffContent)},
       n \in {probe.diffAnalysis.changeMetrics.filesModified},
       value \in {probe.value} :
      LET hit == {k \in 1..Len(StatedOrder) :
                    \E w \in StatedKeywords[StatedOrder[k]] : includes(text, w)}
      IN IF hit # {}
         THEN /\ \E k \in hit :
                   /\ \A j \in hit : k <= j
                   /\ startsWith(value.text, TemplateOpening[StatedOrder[k]])
                   /\ \A j \in 1..Len(StatedOrder) :
                        j # k => ~startsWith(value.text, TemplateOpening[StatedOrder[j]])
                   /\ StatedOrder[k] = "feature" =>
                        endsWith(value.text, " feature affecting " \o NatToStr(n) \o " modules")
              /\ value.confidence = 75
         ELSE /\ value.confidence = 60
              /\ IF probe.diffAnalysis.impactLevel = "high" /\ n > 10
                 THEN /\ startsWith(value.text, "Delivered major ")
                      /\ endsWith(value.text, " feature affecting " \o NatToStr(n) \o " modules")
                 ELSE IF probe.diffAnalysis.impactLevel = "high"
                 THEN /\ startsWith(value.text, "Completed high-impact ")
                      /\ endsWith(value.text, " work")
                 ELSE IF probe.diffAnalysis.impactLevel = "medium"
                 THEN /\ startsWith(value.text, "Delivered ")
                      /\ ~startsWith(value.text, "Delivered major ")
                      /\ endsWith(value.text, " feature")
                 ELSE /\ startsWith(value.text, "Made ")
                      /\ endsWith(value.text, " improvements")

\* a subject that hits the security, feature and no earlier template
SecurityBeforeFeature ==
  /\ SynthesisApplied
  /\ probe.commit.message = "encrypt and add feature"
  /\ probe.diffContent = ""
  /\ probe.commit.files = <<"src/auth/login.ts">>
  /\ startsWith(probe.value.text, "Enhanced security in ")
  /\ probe.value.confidence = 75

(***************************************************************************)
(* C28: whatever the commit and the outcome of the diff, the tier branch   *)
(* analyzeDiff takes leaves a signal of its own in the list: high, a       *)
(* critical-file, critical-keyword or 'Large change' signal; medium, a     *)
(* 'Moderate change', 'Multiple files' or performance signal; low, the     *)
(* 'Small change' signal.  The list returned is never empty and never      *)
(* holds 'Standard commit'.                                                *)
(***************************************************************************)
SomeSignalOpens(signals, openings) ==
  \E k \in 1..Len(signals) : \E w \in openings : startsWith(signals[k], w)

TierSignalAlwaysPresent ==
  AnalyzeDiffApplied =>
    \E signals \in {probe.value.signals},
       totalLines \in {probe.commit.insertions + probe.commit.deletions} :
      /\ Len(signals) > 0
      /\ ~HasSignal(signals, "Standard commit")
      /\ probe.value.impactLevel = "high" =>
           SomeSignalOpens(signals, {"Critical file modified: ", "Critical keyword found: ",
                                     "Large change: "})
      /\ probe.value.impactLevel = "medium" =>
           SomeSignalOpens(signals, {"Moderate change: ", "Multiple files: ",
                                     "Performance-related changes detected"})
      /\ probe.value.impactLevel = "low" =>
           HasSignal(signals, "Small change: " \o NatToStr(totalLines) \o " lines")

\* a low commit of more than ten files whose diff cannot be read: the small
\* change is its only signal
OnlySmallChangeSignal ==
  /\ AnalyzeDiffApplied
  /\ ~probe.diff.ok
  /\ Len(probe.commit.files) = ManyFiles
  /\ probe.value.impactLevel = "low"
  /\ probe.value.signals = <<"Small change: 60 lines">>

(***************************************************************************)
(* C29: every result of generateAchievement has a text that is not empty   *)
(* and comes from the reference path, a backend or pattern synthesis;      *)
(* pattern synthesis always gives a text, so the subject of the commit is  *)
(* never returned in its place, also for a commit without message.         *)
(***************************************************************************)
TextSources == {"title", "number", "openai", "ollama", "template", "fallback"}

ResultAlwaysHasText ==
  pc = "returned" =>
    /\ result.achievement # ""
    /\ gen.path \in TextSources
    /\ gen.path \in {"title", "number", "template", "fallback"} =>
         result.achievement = gen.achievementText
    /\ gen.path \in {"template", "fallback"} => result.confidence \in {75, 60}

\* the commit without message, files or diff, called directly: the text of
\* the unmatched branch
EmptyMessageSynthesized ==
  /\ pc = "returned"
  /\ commit.message = ""
  /\ diffAnalysis.impactLevel = "low"
  /\ gen.path = "fallback"
  /\ result.achievement = "Made system improvements"
  /\ result.confidence = 60

(***************************************************************************)
(* C30: in the backend block the remote backend is asked first whenever    *)
(* apiKey is set; the local backend is asked only with useLocalLlm set     *)
(* and, when apiKey is set too, only after the remote call has failed; a   *)
(* remote result is returned at once, with confidence 0.95 and not         *)
(* data-local, without a local call; without apiKey the remote backend is  *)
(* never called.                                                           *)
(***************************************************************************)
RemoteFirstLocalOnFailure ==
  InCall =>
    /\ ~callOptions.apiKey => thisCall({"openai"}) = {}
    /\ ~callOptions.useLocalLlm => thisCall({"ollama"}) = {}
    /\ (callOptions.apiKey /\ thisCall(BackendKinds) # {}) => thisCall({"openai"}) # {}
    /\ (callOptions.apiKey /\ thisCall({"ollama"}) # {}) =>
         /\ "openai" \in gen.failed
         /\ \A j \in thisCall({"openai"}), k \in thisCall({"ollama"}) : j < k
    /\ (pc = "returned" /\ gen.path = "openai") =>
         /\ result.aiGenerated
         /\ result.confidence = 95
         /\ ~result.dataLocal
         /\ thisCall({"ollama"}) = {}
    /\ (pc = "returned" /\ callOptions.apiKey /\ callOptions.useLocalLlm
        /\ thisCall({"openai"}) # {} /\ "openai" \notin gen.failed) =>
         gen.path = "openai"

\* both backends configured and the remote one answered: no local call
RemoteAnsweredLocalNotAsked ==
  /\ pc = "returned"
  /\ callOptions.apiKey /\ callOptions.useLocalLlm
  /\ gen.path = "openai"
  /\ result.confidence = 95
  /\ thisCall({"ollama"}) = {}

====
